---- MODULE Spec2Model ----
(***************************************************************************)
(* Model of scrape_short_reports.py: the crawl of the seed pages of a      *)
(* list of firms (main, process_seed), the link classifier, the content    *)
(* extractor, the PDF capture and the two CSV writers.                     *)
(*                                                                         *)
(* Text is modelled as a sequence of one-character strings, so that the    *)
(* string functions of the program (lower, strip, split, endswith, the     *)
(* substring test, urljoin, urlparse) are computed and not assumed.        *)
(***************************************************************************)
EXTENDS Integers, Sequences, FiniteSets, TLC

\* ------------------------------------------------------------------------
\* Program constants
\* ------------------------------------------------------------------------
RETRY_COUNT == 2

REPORT_KEYWORDS == <<
    <<"r","e","p","o","r","t">>,
    <<"r","e","s","e","a","r","c","h">>,
    <<"w","h","i","t","e","p","a","p","e","r">>,
    <<"p","d","f">>,
    <<"s","h","o","r","t">>,
    <<"a","n","a","l","y","s","i","s">>,
    <<"e","x","p","o","s","e">>,
    <<"r","e","b","u","t","t","a","l">>,
    <<"i","n","v","e","s","t","i","g","a","t","i","o","n">> >>

\* The alternatives of the path regex of process_seed,
\* /report[s]?/|/research/|/insights/|/investigation/|/whitepaper/|/publication/
PathSegments == {
    <<"/","r","e","p","o","r","t","/">>,
    <<"/","r","e","p","o","r","t","s","/">>,
    <<"/","r","e","s","e","a","r","c","h","/">>,
    <<"/","i","n","s","i","g","h","t","s","/">>,
    <<"/","i","n","v","e","s","t","i","g","a","t","i","o","n","/">>,
    <<"/","w","h","i","t","e","p","a","p","e","r","/">>,
    <<"/","p","u","b","l","i","c","a","t","i","o","n","/">> }

\* ------------------------------------------------------------------------
\* Python string primitives on sequences of characters
\* ------------------------------------------------------------------------
UpperChars == <<"A","B","C","D","E","F","G","H","I","J","K","L","M",
                "N","O","P","Q","R","S","T","U","V","W","X","Y","Z">>
LowerChars == <<"a","b","c","d","e","f","g","h","i","j","k","l","m",
                "n","o","p","q","r","s","t","u","v","w","x","y","z">>

\* the lower-case letter of every upper-case letter
ToLower ==
    [c \in {UpperChars[i] : i \in 1..Len(UpperChars)} |->
        LowerChars[CHOOSE i \in 1..Len(UpperChars) : UpperChars[i] = c]]

\* str.lower() on one character
LowerChar(c) == IF c \in DOMAIN ToLower THEN ToLower[c] ELSE c

\* str.lower()
Lower(s) == [i \in 1..Len(s) |-> LowerChar(s[i])]

\* s.startswith(p)
StartsWith(s, p) == Len(p) <= Len(s) /\ SubSeq(s, 1, Len(p)) = p

\* s.endswith(p)
EndsWith(s, p) == Len(p) <= Len(s) /\ SubSeq(s, Len(s) - Len(p) + 1, Len(s)) = p

\* s.find(c, from): index of the first c at or after position from, 0 if none
RECURSIVE FindChar(_, _, _)
FindChar(s, cs, from) ==
    IF from > Len(s) THEN 0
    ELSE IF s[from] \in cs THEN from
    ELSE FindChar(s, cs, from + 1)

\* `p in s`, scanning the start positions left to right
RECURSIVE FindSub(_, _, _)
FindSub(s, p, from) ==
    IF from + Len(p) - 1 > Len(s) THEN FALSE
    ELSE IF SubSeq(s, from, from + Len(p) - 1) = p THEN TRUE
    ELSE FindSub(s, p, from + 1)

Contains(s, p) == FindSub(s, p, 1)

IsSpace(c) == c = " "

\* str.strip()
RECURSIVE LStrip(_)
LStrip(s) == IF s # <<>> /\ IsSpace(Head(s)) THEN LStrip(Tail(s)) ELSE s

RECURSIVE RStrip(_)
RStrip(s) ==
    IF s # <<>> /\ IsSpace(s[Len(s)]) THEN RStrip(SubSeq(s, 1, Len(s) - 1)) ELSE s

Strip(s) == RStrip(LStrip(s))

\* re.sub(r"\s+", " ", s): every run of whitespace becomes one space
RECURSIVE CollapseSpaces(_)
CollapseSpaces(s) ==
    IF s = <<>> THEN <<>>
    ELSE IF IsSpace(Head(s))
         THEN <<" ">> \o CollapseSpaces(LStrip(s))
         ELSE <<Head(s)>> \o CollapseSpaces(Tail(s))

clean_text(s) == IF s = <<>> THEN <<>> ELSE Strip(CollapseSpaces(s))

\* ------------------------------------------------------------------------
\* URLs: urljoin and urlparse(...).path for http URLs
\* ------------------------------------------------------------------------
SchemeSep == <<":","/","/">>
HttpPrefix == <<"h","t","t","p",":","/","/">>

\* index of the first character after scheme://netloc (Len+1 if the URL ends
\* there): the netloc runs to the first "/", "?" or "#"
PathStart(url) ==
    LET k == FindChar(url, {"/", "?", "#"}, Len(HttpPrefix) + 1)
    IN  IF k = 0 THEN Len(url) + 1 ELSE k

\* urlparse(url).path: from the end of the netloc to the first "?" or "#"
UrlPath(url) ==
    LET a == PathStart(url)
        k == FindChar(url, {"?", "#"}, a)
        b == IF k = 0 THEN Len(url) ELSE k - 1
    IN  SubSeq(url, a, b)

\* scheme://netloc of an absolute URL
UrlOrigin(url) == SubSeq(url, 1, PathStart(url) - 1)

\* the URL up to (not including) the first character of cs
CutAt(url, cs) ==
    LET k == FindChar(url, cs, 1)
    IN  IF k = 0 THEN url ELSE SubSeq(url, 1, k - 1)

\* the last "/" of s, 0 if none
RECURSIVE LastSlash(_, _)
LastSlash(s, i) == IF i = 0 THEN 0 ELSE IF s[i] = "/" THEN i ELSE LastSlash(s, i - 1)

\* urljoin(base, href) for an absolute http base and an href that is empty,
\* absolute, host-relative ("/p"), a query ("?q"), a fragment ("#f") or a
\* relative path without dot segments
urljoin(base, href) ==
    IF href = <<>> THEN base
    ELSE IF StartsWith(href, HttpPrefix) THEN href
    ELSE IF Head(href) = "/" THEN UrlOrigin(base) \o href
    ELSE IF Head(href) = "?" THEN CutAt(base, {"?", "#"}) \o href
    ELSE IF Head(href) = "#" THEN CutAt(base, {"#"}) \o href
    ELSE LET p == UrlPath(base)
             d == SubSeq(p, 1, LastSlash(p, Len(p)))
         IN  UrlOrigin(base) \o (IF d = <<>> THEN <<"/">> ELSE d) \o href

\* None of Python, for the values the program tests with `if not x`
None == <<"None">>

MailtoPrefix == <<"m","a","i","l","t","o",":">>
JavascriptPrefix == <<"j","a","v","a","s","c","r","i","p","t",":">>
TelPrefix == <<"t","e","l",":">>

\* Mutant: no scheme is ignored
normalize_url_keeps_schemes(base, href) ==
    IF href = <<>> THEN None ELSE urljoin(base, Strip(href))

normalize_url(base, href) ==
    IF href = <<>> THEN None
    ELSE LET h == Strip(href)
         IN  IF StartsWith(h, MailtoPrefix) \/ StartsWith(h, JavascriptPrefix)
                \/ StartsWith(h, TelPrefix)
             THEN None
             ELSE urljoin(base, h)

\* ------------------------------------------------------------------------
\* Link classifier
\* ------------------------------------------------------------------------
DotPdf == <<".","p","d","f">>

\* Mutant: the extension is compared without lower()
is_pdf_link_case_sensitive(href) == EndsWith(CutAt(href, {"?"}), DotPdf)

\* href.lower().split('?')[0].endswith('.pdf')
is_pdf_link(href) == EndsWith(CutAt(Lower(href), {"?"}), DotPdf)

\* the loop over REPORT_KEYWORDS, in order
RECURSIVE AnyKeywordFrom(_, _)
AnyKeywordFrom(s, i) ==
    IF i > Len(REPORT_KEYWORDS) THEN FALSE
    ELSE IF Contains(s, REPORT_KEYWORDS[i]) THEN TRUE
    ELSE AnyKeywordFrom(s, i + 1)

\* Mutant: the keywords are looked for in the URL without scheme and host
looks_like_report_without_host(href, text) ==
    LET s == Lower(SubSeq(href, PathStart(href), Len(href)) \o <<" ">> \o text)
    IN  IF AnyKeywordFrom(s, 1) THEN TRUE
        ELSE IF is_pdf_link(href) THEN TRUE
        ELSE FALSE

looks_like_report(href, text) ==
    LET s == Lower(href \o <<" ">> \o text)
    IN  IF AnyKeywordFrom(s, 1) THEN TRUE
        ELSE IF is_pdf_link(href) THEN TRUE
        ELSE FALSE

\* re.search(<path regex>, urlparse(found).path, flags=re.IGNORECASE)
PathLooksLikeReports(found) ==
    LET p == Lower(UrlPath(found))
    IN  \E seg \in PathSegments : Contains(p, seg)

\* Mutant: the path patterns are not tried
AcceptedByKeywordOnly(found, link_text) == looks_like_report(found, link_text)

\* the test of process_seed that lets an anchor through to a record
Accepted(found, link_text) ==
    IF ~looks_like_report(found, link_text)
    THEN PathLooksLikeReports(found)
    ELSE TRUE

\* sanitize_filename: re.sub(r'[^A-Za-z0-9._-]', '_', s)
Digits == <<"0","1","2","3","4","5","6","7","8","9">>

FilenameChars ==
    {UpperChars[i] : i \in 1..Len(UpperChars)} \cup
    {LowerChars[i] : i \in 1..Len(LowerChars)} \cup
    {Digits[i] : i \in 1..Len(Digits)} \cup {".", "_", "-"}

sanitize_filename(s) == [i \in 1..Len(s) |-> IF s[i] \in FilenameChars THEN s[i] ELSE "_"]

\* os.path.basename(urlparse(url).path), sanitized; None when it is empty
guessed_filename_from_url(url) ==
    LET p == UrlPath(url)
        name == SubSeq(p, LastSlash(p, Len(p)) + 1, Len(p))
    IN  IF name # <<>> THEN sanitize_filename(name) ELSE None

\* f"report_{int(time.time())}.pdf": the clock value is abstracted to "t"
FallbackFilename == <<"r","e","p","o","r","t","_","t",".","p","d","f">>

\* os.path.join(out_dir, "downloaded_pdfs", sanitize_filename(firm_name), fname),
\* written relative to out_dir/downloaded_pdfs
LocalFile(firm_name, found) ==
    LET g == guessed_filename_from_url(found)
        fname == IF g # None THEN g ELSE FallbackFilename
    IN  sanitize_filename(firm_name) \o <<"/">> \o fname

\* ------------------------------------------------------------------------
\* Dates.  A date string is "D" digit, optionally followed by "Z" or by a
\* sign and a digit: the digit after "D" is the local time, the suffix the
\* UTC offset ("D3" is naive, "D3Z" and "D3+0" are 3 o'clock UTC).
\* ------------------------------------------------------------------------
DigitValue(c) == (CHOOSE i \in 1..Len(Digits) : Digits[i] = c) - 1
IsDigit(c) == \E i \in 1..Len(Digits) : Digits[i] = c

NoDate == [ok |-> FALSE, local |-> 0, aware |-> FALSE, off |-> 0]

\* the datetime a well-formed date string denotes, NoDate (the parser
\* raises) otherwise
ParseDateString(s) ==
    IF Len(s) >= 2 /\ s[1] = "D" /\ IsDigit(s[2])
    THEN IF Len(s) = 2
         THEN [ok |-> TRUE, local |-> DigitValue(s[2]), aware |-> FALSE, off |-> 0]
         ELSE IF Len(s) = 3 /\ s[3] = "Z"
         THEN [ok |-> TRUE, local |-> DigitValue(s[2]), aware |-> TRUE, off |-> 0]
         ELSE IF Len(s) = 4 /\ s[3] \in {"+", "-"} /\ IsDigit(s[4])
         THEN [ok |-> TRUE, local |-> DigitValue(s[2]), aware |-> TRUE,
               off |-> IF s[3] = "+" THEN DigitValue(s[4]) ELSE 0 - DigitValue(s[4])]
         ELSE NoDate
    ELSE NoDate

\* dateutil.parser.parse(val, fuzzy=True)
dateparser_parse(val) == ParseDateString(val)

\* datetime.isoformat(): an aware datetime carries its offset, never "Z"
isoformat(dt) ==
    <<"D", Digits[dt.local + 1]>> \o
    (IF dt.aware
     THEN <<IF dt.off >= 0 THEN "+" ELSE "-",
            Digits[(IF dt.off >= 0 THEN dt.off ELSE 0 - dt.off) + 1]>>
     ELSE <<>>)

\* date_str.replace('Z', '+00:00')
RECURSIVE ReplaceZ(_)
ReplaceZ(s) ==
    IF s = <<>> THEN <<>>
    ELSE (IF Head(s) = "Z" THEN <<"+", "0">> ELSE <<Head(s)>>) \o ReplaceZ(Tail(s))

\* datetime.fromisoformat: no "Z" suffix is accepted
fromisoformat(s) ==
    IF \E i \in 1..Len(s) : s[i] = "Z" THEN NoDate ELSE ParseDateString(s)

\* the instant of an aware datetime, the key min() and max() compare by
Instant(dt) == dt.local - dt.off

\* ------------------------------------------------------------------------
\* Content extractor.  A parsed target page is
\*   title     the string of its <title>, None without one
\*   tags      its <meta> and <time> elements in document order, each
\*             [tag, attr, key, content, datetime, text]
\*   h1        the text of its first <h1>, None without one
\*   textdate  the match of the month-name regex in its visible text, <<>>
\*             without one
\*   p         the text of its first <p>, None without one
\*   links     its own <a> elements, in document order
\* ------------------------------------------------------------------------
Falsy(x) == x = None \/ x = <<>>

\* Python's `a or b`
OrElse(a, b) == IF Falsy(a) THEN b ELSE a

\* Mutant: the <time> elements are tried before the meta tags
meta_props_time_first == <<
    [tag |-> "time", attr |-> "",         key |-> ""],
    [tag |-> "meta", attr |-> "property", key |-> "article:published_time"],
    [tag |-> "meta", attr |-> "name",     key |-> "article:published_time"],
    [tag |-> "meta", attr |-> "property", key |-> "og:published_time"],
    [tag |-> "meta", attr |-> "name",     key |-> "og:published_time"],
    [tag |-> "meta", attr |-> "name",     key |-> "pubdate"],
    [tag |-> "meta", attr |-> "name",     key |-> "publication_date"],
    [tag |-> "meta", attr |-> "name",     key |-> "date"] >>

meta_props == <<
    [tag |-> "meta", attr |-> "property", key |-> "article:published_time"],
    [tag |-> "meta", attr |-> "name",     key |-> "article:published_time"],
    [tag |-> "meta", attr |-> "property", key |-> "og:published_time"],
    [tag |-> "meta", attr |-> "name",     key |-> "og:published_time"],
    [tag |-> "meta", attr |-> "name",     key |-> "pubdate"],
    [tag |-> "meta", attr |-> "name",     key |-> "publication_date"],
    [tag |-> "meta", attr |-> "name",     key |-> "date"],
    [tag |-> "time", attr |-> "",         key |-> ""] >>

\* soup.find_all(tag, attrs=attrs) selects t
Selects(sel, t) ==
    /\ t.tag = sel.tag
    /\ sel.attr # "" => (t.attr = sel.attr /\ t.key = sel.key)

\* t.get('content') or t.get('datetime') or t.get_text()
TagValue(t) == OrElse(t.content, OrElse(t.datetime, t.text))

\* the inner loop of find_date_from_meta over the tags one selector finds
RECURSIVE DateFromTags(_, _, _)
DateFromTags(tags, sel, j) ==
    IF j > Len(tags) THEN None
    ELSE LET val == clean_text(TagValue(tags[j]))
             dt  == dateparser_parse(val)
         IN  IF Selects(sel, tags[j]) /\ val # <<>> /\ dt.ok
             THEN isoformat(dt)
             ELSE DateFromTags(tags, sel, j + 1)

\* the outer loop over meta_props
RECURSIVE DateFromSelectors(_, _)
DateFromSelectors(tags, i) ==
    IF i > Len(meta_props) THEN None
    ELSE LET r == DateFromTags(tags, meta_props[i], 1)
         IN  IF r # None THEN r ELSE DateFromSelectors(tags, i + 1)

find_date_from_meta(soup) ==
    LET r == DateFromSelectors(soup.tags, 1)
    IN  IF r # None THEN r
        ELSE IF soup.textdate # <<>>
             THEN LET dt == dateparser_parse(soup.textdate)
                  IN  IF dt.ok THEN isoformat(dt) ELSE None
             ELSE None

\* soup.find('meta', attrs={'property': name}) or soup.find('meta', attrs={'name': name})
NoTag == [tag |-> "", attr |-> "", key |-> "", content |-> <<>>,
          datetime |-> <<>>, text |-> <<>>]

RECURSIVE FindMeta(_, _, _, _)
FindMeta(tags, attr, key, j) ==
    IF j > Len(tags) THEN NoTag
    ELSE IF tags[j].tag = "meta" /\ tags[j].attr = attr /\ tags[j].key = key
         THEN tags[j]
         ELSE FindMeta(tags, attr, key, j + 1)

TitleMetaNames == <<"og:title", "twitter:title", "title">>

RECURSIVE TitleFromMeta(_, _)
TitleFromMeta(tags, i) ==
    IF i > Len(TitleMetaNames) THEN None
    ELSE LET byProp == FindMeta(tags, "property", TitleMetaNames[i], 1)
             tag    == IF byProp # NoTag THEN byProp
                       ELSE FindMeta(tags, "name", TitleMetaNames[i], 1)
         IN  IF tag # NoTag /\ tag.content # <<>>
             THEN clean_text(tag.content)
             ELSE TitleFromMeta(tags, i + 1)

extract_title(soup) ==
    IF ~Falsy(soup.title) THEN clean_text(soup.title)
    ELSE LET m == TitleFromMeta(soup.tags, 1)
         IN  IF m # None THEN m
             ELSE IF soup.h1 # None THEN clean_text(soup.h1)
             ELSE None

\* snippet_around_link: the text of the enclosing p/article/div, else the
\* anchor's own text
snippet_around_link(a) ==
    IF a.parent # None THEN clean_text(a.parent) ELSE clean_text(a.text)

\* ------------------------------------------------------------------------
\* The inputs of a run: the configuration, the seed pages and the target
\* pages the sites serve
\* ------------------------------------------------------------------------
SeedNews == <<"h","t","t","p",":","/","/","a",".","c","o","/","n","e","w","s">>  \* http://a.co/news
SeedArchive == <<"h","t","t","p",":","/","/","a",".","c","o","/","a","r","c","h","i","v","e","/">>  \* http://a.co/archive/
SeedShortCo == <<"h","t","t","p",":","/","/","s","h","o","r","t","c","o",".","i","o","/">>  \* http://shortco.io/

Seeds == {SeedNews, SeedArchive, SeedShortCo}

MetaTag(attr, key, content) ==
    [tag |-> "meta", attr |-> attr, key |-> key, content |-> content,
     datetime |-> <<>>, text |-> <<>>]
TimeTag(datetime, text) ==
    [tag |-> "time", attr |-> "", key |-> "", content |-> <<>>,
     datetime |-> datetime, text |-> text]

\* a blank <title>, an <h1>, no date anywhere, no link
TpBare == [title |-> <<" ">>, tags |-> <<>>, h1 |-> <<"H","1">>,
           textdate |-> <<>>, p |-> None, links |-> <<>>]
\* a link of a target page: <a href="/deep/report.pdf">report</a>
AnDeep == [href |-> <<"/","d","e","e","p","/","r","e","p","o","r","t",".","p","d","f">>,
    text |-> <<"r","e","p","o","r","t">>, parent |-> None,
    target |-> TpBare]
\* <title>T1</title>, article:published_time 3Z, a later date in the text,
\* and a link to a further report
TpFull == [title |-> <<"T","1">>,
           tags |-> <<MetaTag("property", "article:published_time", <<"D","3","Z">>)>>,
           h1 |-> <<"H">>, textdate |-> <<"D","7">>, p |-> <<"p","1">>,
           links |-> <<AnDeep>>]
\* no <title>; og:title; an unparseable date meta, then a <time>
TpMeta == [title |-> None,
           tags |-> <<MetaTag("name", "date", <<"s","o","o","n">>),
                      MetaTag("property", "og:title", <<"O","G">>),
                      TimeTag(<<"D","5","+","4">>, <<>>)>>,
           h1 |-> None, textdate |-> <<>>, p |-> None, links |-> <<>>]

\* The anchors of the seed pages: the href, the text, the text of the
\* enclosing p/article/div (None without one) and the page the target
\* serves when it answers 200 text/html
\* <a href="/blog/update">site  update</a>
AnBlog == [href |-> <<"/","b","l","o","g","/","u","p","d","a","t","e">>,
    text |-> <<"s","i","t","e"," "," ","u","p","d","a","t","e">>, parent |-> None,
    target |-> TpBare]
\* <a href="/blog/update">Full Report</a>
AnBlogKw == [href |-> <<"/","b","l","o","g","/","u","p","d","a","t","e">>,
    text |-> <<"F","u","l","l"," ","R","e","p","o","r","t">>, parent |-> None,
    target |-> TpFull]
\* <a href="http://a.co/blog/update">more</a>
AnBlogAbs == [href |-> <<"h","t","t","p",":","/","/","a",".","c","o","/","b","l","o","g","/","u","p","d","a","t","e">>,
    text |-> <<"m","o","r","e">>, parent |-> None,
    target |-> TpFull]
\* <a href="/docs/Acme.PDF">Acme</a>
AnPdfUpper == [href |-> <<"/","d","o","c","s","/","A","c","m","e",".","P","D","F">>,
    text |-> <<"A","c","m","e">>, parent |-> None,
    target |-> TpBare]
\* <a href="/docs/a.pdf?dl=1"></a>
AnPdfQuery == [href |-> <<"/","d","o","c","s","/","a",".","p","d","f","?","d","l","=","1">>,
    text |-> <<>>, parent |-> None,
    target |-> TpBare]
\* <a href="/docs/a.pdf#p2">deck</a>
AnPdfFrag == [href |-> <<"/","d","o","c","s","/","a",".","p","d","f","#","p","2">>,
    text |-> <<"d","e","c","k">>, parent |-> None,
    target |-> TpBare]
\* <a href="/Insights/q3">Q3</a>
AnInsights == [href |-> <<"/","I","n","s","i","g","h","t","s","/","q","3">>,
    text |-> <<"Q","3">>, parent |-> <<"Q","3"," "," ","o","u","t">>,
    target |-> TpMeta]
\* <a href="/x?u=/insights/">x</a>
AnQueryOnly == [href |-> <<"/","x","?","u","=","/","i","n","s","i","g","h","t","s","/">>,
    text |-> <<"x">>, parent |-> None,
    target |-> TpFull]
\* <a href="mailto:ir@a.co">research desk</a>
AnMailto == [href |-> <<"m","a","i","l","t","o",":","i","r","@","a",".","c","o">>,
    text |-> <<"r","e","s","e","a","r","c","h"," ","d","e","s","k">>, parent |-> None,
    target |-> TpBare]
\* <a href="javascript:void(0)">Short report</a>
AnJavascript == [href |-> <<"j","a","v","a","s","c","r","i","p","t",":","v","o","i","d","(","0",")">>,
    text |-> <<"S","h","o","r","t"," ","r","e","p","o","r","t">>, parent |-> None,
    target |-> TpBare]
\* <a href=" tel:+1555">research line</a>
AnTel == [href |-> <<" ","t","e","l",":","+","1","5","5","5">>,
    text |-> <<"r","e","s","e","a","r","c","h"," ","l","i","n","e">>, parent |-> None,
    target |-> TpBare]
\* <a href="">report</a>
AnEmpty == [href |-> <<>>,
    text |-> <<"r","e","p","o","r","t">>, parent |-> None,
    target |-> TpBare]
\* <a href="q3.html">Analysis</a>
AnRelative == [href |-> <<"q","3",".","h","t","m","l">>,
    text |-> <<"A","n","a","l","y","s","i","s">>, parent |-> None,
    target |-> TpMeta]
\* <a href=" /research/x "></a>
AnPadded == [href |-> <<" ","/","r","e","s","e","a","r","c","h","/","x"," ">>,
    text |-> <<>>, parent |-> None,
    target |-> TpFull]
\* <a href="/old/a.pdf">old</a>
AnPdfOld == [href |-> <<"/","o","l","d","/","a",".","p","d","f">>,
    text |-> <<"o","l","d">>, parent |-> None,
    target |-> TpBare]

PageMixed  == <<AnEmpty, AnBlog, AnPdfUpper, AnBlogKw>>
PagePadded == <<AnPadded, AnPdfUpper, AnPdfUpper>>
PageMisc   == <<AnQueryOnly, AnInsights, AnRelative>>
PagePdfs   == <<AnPdfQuery, AnJavascript, AnPdfFrag, AnMailto, AnTel>>
PageDup    == <<AnBlogKw, AnBlogAbs, AnQueryOnly, AnInsights, AnPdfOld>>
PageEmpty  == <<>>

\* what each seed URL serves when its fetch answers 200
WebA == [s \in Seeds |-> IF s = SeedNews THEN PageMixed
                         ELSE IF s = SeedArchive THEN PagePadded ELSE PageMisc]
WebB == [s \in Seeds |-> IF s = SeedNews THEN PagePdfs
                         ELSE IF s = SeedArchive THEN PageDup ELSE PageEmpty]
Webs == {WebA, WebB}

AcmeName  == <<"A","c","m","e"," ","C","o">>
BetaName  == <<"B","e","t","a">>
GammaName == <<"G","/","R">>

\* firms.json: the "firms" list.  A firm may lack the seed_urls key.
ConfigA == <<[name |-> AcmeName, seed_urls |-> <<SeedNews, SeedArchive>>],
             [name |-> BetaName, seed_urls |-> <<>>],
             [name |-> GammaName, seed_urls |-> <<SeedShortCo>>]>>
ConfigB == <<[name |-> BetaName],
             [name |-> GammaName, seed_urls |-> <<SeedArchive>>],
             [name |-> AcmeName, seed_urls |-> <<SeedShortCo, SeedNews>>]>>
Configs == {ConfigA, ConfigB}

\* dict.get(key, default)
Get(d, key, default) == IF key \in DOMAIN d THEN d[key] ELSE default

\* ------------------------------------------------------------------------
\* Bounds
\* ------------------------------------------------------------------------
\* how many links of one run may meet failures while they are handled (a
\* probe, download or target fetch that raises or answers something else
\* than 200 text/html, a failing mkdir or write); one link may meet several,
\* and failing seed fetches are not counted
MaxFaultyLinks == 1

\* http_status = None, and the "" written for it
NoStatus == 0

CSV_FIELDS == <<"firm", "seed_url", "found_url", "title", "date_published",
                "snippet", "is_pdf", "local_path", "http_status", "fetched_at">>

FIRMS_CSV_FIELDS == <<"firm_name", "website", "description", "total_reports",
                      "pdf_reports", "html_reports", "earliest_report_date",
                      "latest_report_date", "seed_urls_scanned",
                      "successful_fetches", "last_scanned_at">>

\* a file that does not exist (os.path.exists is false)
NoFile == [exists |-> FALSE, lines |-> <<>>]

\* ------------------------------------------------------------------------
\* State
\* ------------------------------------------------------------------------
VARIABLES
    config,              \* config["firms"]
    download_pdfs,       \* args.download_pdfs
    web,                 \* the page each seed URL serves
    pc,                  \* where main / process_seed stands
    fi,                  \* index of the firm of `for firm in firms`
    si,                  \* index of the seed of `for seed in seed_urls`
    firm_rows,
    successful_fetches,
    all_rows,
    firm_summaries,
    results,             \* process_seed: results
    seen_urls,           \* process_seed: seen_urls
    ai,                  \* process_seed: index of the anchor of `for a in anchors`
    cur,                 \* process_seed: the locals of the link being handled
    reports_csv,         \* the lines of <out-dir>/reports.csv
    firms_csv,           \* the lines of <out-dir>/firms_dataset.csv
    pdf_store,           \* the files under <out-dir>/downloaded_pdfs
    log,                 \* history: the requests issued and the sleeps taken
    faults,              \* history: the links that met a failure so far, and
                         \* whether the link being handled is one of them
    call                 \* safe_request: the arguments and locals of the call

vars == <<config, download_pdfs, web, pc, fi, si, firm_rows, successful_fetches,
          all_rows, firm_summaries, results, seen_urls, ai, cur, reports_csv,
          firms_csv, pdf_store, log, faults, call>>

inputs == <<config, download_pdfs, web>>
mainLoop == <<fi, firm_rows, successful_fetches, all_rows, firm_summaries>>
outputs == <<reports_csv, firms_csv>>

NoCur == [found |-> <<>>, link_text |-> <<>>, is_pdf |-> FALSE, title |-> None,
          date_published |-> None, snippet |-> <<>>, local_path |-> <<>>,
          http_status |-> NoStatus]

firm == config[fi]
firm_name == Get(firm, "name", None)
seed_urls == Get(firm, "seed_urls", <<>>)
seed == seed_urls[si]

\* the links of the pages the anchors of a page lead to
RECURSIVE LinksOfTargets(_)
LinksOfTargets(page) ==
    IF page = <<>> THEN <<>> ELSE Head(page).target.links \o LinksOfTargets(Tail(page))

\* Mutant: the links of the target pages are scanned after those of the seed
anchorsWithTargetLinks == web[seed] \o LinksOfTargets(web[seed])

\* anchors = soup.find_all("a", href=True) of the seed page
anchors == web[seed]

\* The entries of the history.  kind is the call of safe_request that was
\* made: "seed" (GET of a seed page), "probe" (HEAD of a PDF), "download"
\* (streaming GET of a PDF), "target" (GET of an HTML target).
Request(kind, url, status, ctype) ==
    [ev |-> "response", kind |-> kind, url |-> url, status |-> status,
     ctype |-> ctype, firm |-> fi]
\* safe_request raised after its retries
Failure(kind, url) ==
    [ev |-> "failure", kind |-> kind, url |-> url, status |-> NoStatus,
     ctype |-> "", firm |-> fi]
\* time.sleep(sleep_sec)
Sleep ==
    [ev |-> "sleep", kind |-> "", url |-> <<>>, status |-> NoStatus,
     ctype |-> "", firm |-> fi]
\* logging.exception(...) in main
SeedError ==
    [ev |-> "exception", kind |-> "", url |-> seed, status |-> NoStatus,
     ctype |-> "", firm |-> fi]

\* no call of safe_request is followed attempt by attempt
NoCall == [method |-> "", url |-> <<>>, attempt |-> 0, resp |-> NoStatus, exc |-> ""]

\* the link being handled may meet a failure
FaultAllowed == faults.cur \/ faults.links < MaxFaultyLinks

\* the link being handled has met a failure
AfterFault == [links |-> IF faults.cur THEN faults.links ELSE faults.links + 1,
               cur |-> TRUE]

Init ==
    /\ config \in Configs
    /\ download_pdfs \in BOOLEAN
    /\ web \in Webs
    /\ pc = "firm"
    /\ fi = 1
    /\ si = 1
    /\ firm_rows = <<>>
    /\ successful_fetches = 0
    /\ all_rows = <<>>
    /\ firm_summaries = <<>>
    /\ results = <<>>
    /\ seen_urls = {}
    /\ ai = 1
    /\ cur = NoCur
    /\ reports_csv = NoFile
    /\ firms_csv = NoFile
    /\ pdf_store = {}
    /\ log = <<>>
    /\ faults = [links |-> 0, cur |-> FALSE]
    /\ call = NoCall

\* ------------------------------------------------------------------------
\* main: the loop over the firms
\* ------------------------------------------------------------------------
\* Mutant: a firm without seeds ends the loop over the firms (break)
SkipFirmEndsLoop ==
    /\ pc = "firm"
    /\ fi <= Len(config)
    /\ Get(config[fi], "seed_urls", <<>>) = <<>>
    /\ pc' = "save_reports"
    /\ UNCHANGED <<inputs, call, mainLoop, si, results, seen_urls, ai, cur, reports_csv,
                   firms_csv, pdf_store, log, faults>>

\* `if not seed_urls: ... continue`
SkipFirm ==
    /\ pc = "firm"
    /\ fi <= Len(config)
    /\ seed_urls = <<>>
    /\ fi' = fi + 1
    /\ UNCHANGED <<inputs, call, pc, si, firm_rows, successful_fetches, all_rows,
                   firm_summaries, results, seen_urls, ai, cur, outputs,
                   pdf_store, log, faults>>

\* firm_rows = []; successful_fetches = 0; enter the loop over the seeds
StartFirm ==
    /\ pc = "firm"
    /\ fi <= Len(config)
    /\ seed_urls # <<>>
    /\ firm_rows' = <<>>
    /\ successful_fetches' = 0
    /\ si' = 1
    /\ pc' = "seed"
    /\ UNCHANGED <<inputs, call, fi, all_rows, firm_summaries, results, seen_urls, ai,
                   cur, outputs, pdf_store, log, faults>>

\* Mutant: after the loop the summaries are saved, the reports are not
FirmsDoneSavesSummariesOnly ==
    /\ pc = "firm"
    /\ fi > Len(config)
    /\ pc' = "save_firms"
    /\ UNCHANGED <<inputs, call, mainLoop, si, results, seen_urls, ai, cur, outputs,
                   pdf_store, log, faults>>

\* the loop over the firms is exhausted
FirmsDone ==
    /\ pc = "firm"
    /\ fi > Len(config)
    /\ pc' = "save_reports"
    /\ UNCHANGED <<inputs, call, mainLoop, si, results, seen_urls, ai, cur, outputs,
                   pdf_store, log, faults>>

\* process_seed is left (return or exception): its locals are gone
LocalsDropped ==
    /\ results' = <<>>
    /\ seen_urls' = {}
    /\ ai' = 1
    /\ cur' = NoCur

\* Mutant: every call of process_seed that returns counts as successful
RowsReturnedCountsEvery(rows) ==
    /\ firm_rows' = IF rows # <<>> THEN firm_rows \o rows ELSE firm_rows
    /\ successful_fetches' = successful_fetches + 1
    /\ si' = si + 1
    /\ pc' = "seed"

\* main, on the rows process_seed returned:
\*   if rows: firm_rows.extend(rows); successful_fetches += 1
RowsReturned(rows) ==
    /\ firm_rows' = IF rows # <<>> THEN firm_rows \o rows ELSE firm_rows
    /\ successful_fetches' =
           IF rows # <<>> THEN successful_fetches + 1 ELSE successful_fetches
    /\ si' = si + 1
    /\ pc' = "seed"

\* Mutant: main has no try around process_seed, the exception ends the run
SeedExceptionUncaught ==
    /\ log' = Append(log, SeedError)
    /\ pc' = "aborted"
    /\ UNCHANGED <<si, firm_rows, successful_fetches>>

\* main, on an exception out of process_seed: logged, the next seed follows
SeedExceptionCaught ==
    /\ log' = Append(log, SeedError)
    /\ si' = si + 1
    /\ pc' = "seed"
    /\ UNCHANGED <<firm_rows, successful_fetches>>

\* ------------------------------------------------------------------------
\* process_seed: the fetch of the seed page
\* ------------------------------------------------------------------------
\* safe_request raised after its retries: `return results` (empty)
SeedFetchFails ==
    /\ pc = "seed"
    /\ si <= Len(seed_urls)
    /\ log' = Append(log, Failure("seed", seed))
    /\ RowsReturned(<<>>)
    /\ LocalsDropped
    /\ UNCHANGED <<inputs, call, fi, all_rows, firm_summaries, outputs, pdf_store, faults>>

\* Mutant: the status of the seed page is not looked at, the page is scanned
SeedNot200ScannedAnyway ==
    /\ pc = "seed"
    /\ si <= Len(seed_urls)
    /\ log' = Append(log, Request("seed", seed, 404, "text/html"))
    /\ results' = <<>>
    /\ seen_urls' = {}
    /\ ai' = 1
    /\ cur' = NoCur
    /\ pc' = "anchor"
    /\ UNCHANGED <<inputs, call, mainLoop, si, outputs, pdf_store, faults>>

\* resp.status_code != 200: `return results` (empty)
SeedNot200 ==
    /\ pc = "seed"
    /\ si <= Len(seed_urls)
    /\ \E status \in {404} :
           log' = Append(log, Request("seed", seed, status, "text/html"))
    /\ RowsReturned(<<>>)
    /\ LocalsDropped
    /\ UNCHANGED <<inputs, call, fi, all_rows, firm_summaries, outputs, pdf_store, faults>>

\* status 200: the page is parsed, the scan of its anchors starts
SeedFetched ==
    /\ pc = "seed"
    /\ si <= Len(seed_urls)
    /\ log' = Append(log, Request("seed", seed, 200, "text/html"))
    /\ results' = <<>>
    /\ seen_urls' = {}
    /\ ai' = 1
    /\ cur' = NoCur
    /\ pc' = "anchor"
    /\ UNCHANGED <<inputs, call, mainLoop, si, outputs, pdf_store, faults>>

\* ------------------------------------------------------------------------
\* process_seed: the loop over the anchors
\* ------------------------------------------------------------------------
\* Mutant: the seen set is never consulted
AlreadySeenNever(found) == FALSE

\* `if found in seen_urls: continue`
AlreadySeen(found) == found \in seen_urls

\* the locals of one pass of `for a in anchors`
a == anchors[ai]
found == normalize_url(seed, a.href)
link_text == clean_text(a.text)

\* the pass ends at one of the first two `continue`: no URL, or seen before
Skipped == Falsy(found) \/ AlreadySeen(found)

\* the pass ends at the third `continue`: the classifier rejects the link
Rejected == ~Skipped /\ ~Accepted(found, link_text)

\* Mutant: the URL enters the seen set only once the classifier accepted it
NextAnchorSeenWhenAccepted ==
    /\ pc = "anchor"
    /\ ai <= Len(anchors)
    /\ seen_urls' = IF Skipped \/ Rejected THEN seen_urls ELSE seen_urls \cup {found}
    /\ ai' = IF Skipped \/ Rejected THEN ai + 1 ELSE ai
    /\ cur' = IF Skipped \/ Rejected THEN cur
              ELSE [NoCur EXCEPT !.found = found,
                                 !.link_text = link_text,
                                 !.is_pdf = is_pdf_link(found),
                                 !.snippet = snippet_around_link(a)]
    /\ pc' = IF Skipped \/ Rejected THEN pc
             ELSE IF is_pdf_link(found) THEN "pdf_head" ELSE "html_fetch"
    /\ UNCHANGED <<inputs, call, mainLoop, si, results, outputs, pdf_store, log, faults>>

\* one pass of `for a in anchors` up to the classification: the anchor is
\* dropped (no URL, seen before, rejected) or becomes the current link
NextAnchor ==
    /\ pc = "anchor"
    /\ ai <= Len(anchors)
    /\ seen_urls' = IF Skipped THEN seen_urls ELSE seen_urls \cup {found}
    /\ ai' = IF Skipped \/ Rejected THEN ai + 1 ELSE ai
    /\ cur' = IF Skipped \/ Rejected THEN cur
              ELSE [NoCur EXCEPT !.found = found,
                                 !.link_text = link_text,
                                 !.is_pdf = is_pdf_link(found),
                                 !.snippet = snippet_around_link(a)]
    /\ pc' = IF Skipped \/ Rejected THEN pc
             ELSE IF is_pdf_link(found) THEN "pdf_head" ELSE "html_fetch"
    /\ UNCHANGED <<inputs, call, mainLoop, si, results, outputs, pdf_store, log, faults>>

\* the anchors are exhausted: `return results`, and main takes the rows
SeedScanned ==
    /\ pc = "anchor"
    /\ ai > Len(anchors)
    /\ RowsReturned(results)
    /\ LocalsDropped
    /\ UNCHANGED <<inputs, call, fi, all_rows, firm_summaries, outputs, pdf_store, log,
                   faults>>

\* ------------------------------------------------------------------------
\* process_seed: a PDF link
\* ------------------------------------------------------------------------
\* the HEAD probe answered
PdfHeadAnswers ==
    /\ pc = "pdf_head"
    /\ \E status \in {200, 404} :
        /\ status # 200 => FaultAllowed
        /\ faults' = IF status # 200 THEN AfterFault ELSE faults
        /\ cur' = [cur EXCEPT !.http_status = status]
        /\ log' = Append(log, Request("probe", cur.found, status,
                                      IF status = 200 THEN "application/pdf"
                                      ELSE "text/html"))
    /\ pc' = IF download_pdfs THEN "pdf_dir" ELSE "emit"
    /\ UNCHANGED <<inputs, call, mainLoop, si, results, seen_urls, ai, outputs, pdf_store>>

\* the HEAD probe raised after its retries: http_status = None
PdfHeadFails ==
    /\ pc = "pdf_head"
    /\ FaultAllowed
    /\ faults' = AfterFault
    /\ cur' = [cur EXCEPT !.http_status = NoStatus]
    /\ log' = Append(log, Failure("probe", cur.found))
    /\ pc' = IF download_pdfs THEN "pdf_dir" ELSE "emit"
    /\ UNCHANGED <<inputs, call, mainLoop, si, results, seen_urls, ai, outputs, pdf_store>>

\* ensure_dir(pdf_dir) succeeded
PdfDirReady ==
    /\ pc = "pdf_dir"
    /\ pc' = "pdf_get"
    /\ UNCHANGED <<inputs, call, mainLoop, si, results, seen_urls, ai, cur, outputs,
                   pdf_store, log, faults>>

\* ensure_dir(pdf_dir) raised (it stands before the try): the exception
\* leaves process_seed with the results of this seed and reaches main
PdfDirFails ==
    /\ pc = "pdf_dir"
    /\ FaultAllowed
    /\ faults' = [AfterFault EXCEPT !.cur = FALSE]
    /\ SeedExceptionCaught
    /\ LocalsDropped
    /\ UNCHANGED <<inputs, call, fi, all_rows, firm_summaries, outputs, pdf_store>>

\* Mutant: the except branch of the download resets http_status
PdfGetFailsClearsStatus ==
    /\ pc = "pdf_get"
    /\ FaultAllowed
    /\ faults' = AfterFault
    /\ log' = Append(log, Failure("download", cur.found))
    /\ cur' = [cur EXCEPT !.http_status = NoStatus]
    /\ pc' = "emit"
    /\ UNCHANGED <<inputs, call, mainLoop, si, results, seen_urls, ai, outputs, pdf_store>>

\* the streaming GET raised after its retries: caught and logged, the
\* status of the probe stays
PdfGetFails ==
    /\ pc = "pdf_get"
    /\ FaultAllowed
    /\ faults' = AfterFault
    /\ log' = Append(log, Failure("download", cur.found))
    /\ pc' = "emit"
    /\ UNCHANGED <<inputs, call, mainLoop, si, results, seen_urls, ai, cur, outputs,
                   pdf_store>>

\* Mutant: the body is written whatever the status of the GET
PdfGetAnswersWritesAnyStatus ==
    /\ pc = "pdf_get"
    /\ \E status \in {200, 404} :
        /\ status # 200 => FaultAllowed
        /\ faults' = IF status # 200 THEN AfterFault ELSE faults
        /\ cur' = [cur EXCEPT !.http_status = status]
        /\ log' = Append(log, Request("download", cur.found, status,
                                      IF status = 200 THEN "application/pdf"
                                      ELSE "text/html"))
        /\ pc' = "pdf_write"
    /\ UNCHANGED <<inputs, call, mainLoop, si, results, seen_urls, ai, outputs, pdf_store>>

\* the streaming GET answered: http_status = dl.status_code; on 200 the
\* body is written next
PdfGetAnswers ==
    /\ pc = "pdf_get"
    /\ \E status \in {200, 404} :
        /\ status # 200 => FaultAllowed
        /\ faults' = IF status # 200 THEN AfterFault ELSE faults
        /\ cur' = [cur EXCEPT !.http_status = status]
        /\ log' = Append(log, Request("download", cur.found, status,
                                      IF status = 200 THEN "application/pdf"
                                      ELSE "text/html"))
        /\ pc' = IF status = 200 THEN "pdf_write" ELSE "emit"
    /\ UNCHANGED <<inputs, call, mainLoop, si, results, seen_urls, ai, outputs, pdf_store>>

\* a file of the store: its path, the URL whose body it holds, and whether
\* the body was written to the end
StoredFile(path, url, complete) == [path |-> path, url |-> url, complete |-> complete]

\* open(local_file, "wb") truncates what was at that path
Overwritten(path) == {f \in pdf_store : f.path # path}

\* local_file = os.path.join(pdf_dir, fname) of the current link
local_file == LocalFile(firm_name, cur.found)

\* the body was written to the end: local_path = local_file
PdfWritten ==
    /\ pc = "pdf_write"
    /\ pdf_store' = Overwritten(local_file) \cup {StoredFile(local_file, cur.found, TRUE)}
    /\ cur' = [cur EXCEPT !.local_path = local_file]
    /\ pc' = "emit"
    /\ UNCHANGED <<inputs, call, mainLoop, si, results, seen_urls, ai, outputs, log, faults>>

\* open() or a write raised: caught and logged, local_path stays ""
PdfWriteFails ==
    /\ pc = "pdf_write"
    /\ FaultAllowed
    /\ faults' = AfterFault
    /\ \E opened \in BOOLEAN :
           pdf_store' = IF opened
                        THEN Overwritten(local_file)
                                 \cup {StoredFile(local_file, cur.found, FALSE)}
                        ELSE pdf_store
    /\ pc' = "emit"
    /\ UNCHANGED <<inputs, call, mainLoop, si, results, seen_urls, ai, cur, outputs, log>>

\* ------------------------------------------------------------------------
\* process_seed: an HTML link
\* ------------------------------------------------------------------------
\* the GET of the target raised after its retries: title = link_text or found
HtmlFetchFails ==
    /\ pc = "html_fetch"
    /\ FaultAllowed
    /\ faults' = AfterFault
    /\ cur' = [cur EXCEPT !.title = OrElse(cur.link_text, cur.found)]
    /\ log' = Append(log, Failure("target", cur.found))
    /\ pc' = "emit"
    /\ UNCHANGED <<inputs, call, mainLoop, si, results, seen_urls, ai, outputs, pdf_store>>

\* the target answered, but not 200 with an HTML content type:
\* title = link_text or found
HtmlNotUsable ==
    /\ pc = "html_fetch"
    /\ FaultAllowed
    /\ faults' = AfterFault
    /\ \E r \in {[status |-> 404, ctype |-> "text/html"],
                 [status |-> 200, ctype |-> "application/pdf"]} :
        /\ cur' = [cur EXCEPT !.http_status = r.status,
                              !.title = OrElse(cur.link_text, cur.found)]
        /\ log' = Append(log, Request("target", cur.found, r.status, r.ctype))
    /\ pc' = "emit"
    /\ UNCHANGED <<inputs, call, mainLoop, si, results, seen_urls, ai, outputs, pdf_store>>

\* BeautifulSoup(link_resp.text, "html.parser") of the current link
sub_soup == a.target

\* the target answered 200 text/html: title, date and snippet are extracted
HtmlFetched ==
    /\ pc = "html_fetch"
    /\ cur' = [cur EXCEPT
                 !.http_status = 200,
                 !.title = OrElse(extract_title(sub_soup), cur.link_text),
                 !.date_published = find_date_from_meta(sub_soup),
                 !.snippet = IF Falsy(cur.snippet)
                             THEN IF sub_soup.p # None THEN clean_text(sub_soup.p)
                                  ELSE <<>>
                             ELSE cur.snippet]
    /\ log' = Append(log, Request("target", cur.found, 200, "text/html"))
    /\ pc' = "emit"
    /\ UNCHANGED <<inputs, call, mainLoop, si, results, seen_urls, ai, outputs, pdf_store,
                   faults>>

\* ------------------------------------------------------------------------
\* process_seed: the record of the link
\* ------------------------------------------------------------------------
ReportRecord(c) ==
    [firm           |-> firm_name,
     seed_url       |-> seed,
     found_url      |-> c.found,
     title          |-> OrElse(c.title, <<>>),
     date_published |-> OrElse(c.date_published, <<>>),
     snippet        |-> OrElse(c.snippet, <<>>),
     is_pdf         |-> c.is_pdf,
     local_path     |-> c.local_path,
     http_status    |-> c.http_status]

\* Mutant: the record is appended and the loop goes on without the sleep
EmitRecordWithoutSleep ==
    /\ pc = "emit"
    /\ results' = Append(results, ReportRecord(cur))
    /\ ai' = ai + 1
    /\ cur' = NoCur
    /\ faults' = [faults EXCEPT !.cur = FALSE]
    /\ pc' = "anchor"
    /\ UNCHANGED <<inputs, call, mainLoop, si, seen_urls, outputs, pdf_store, log>>

\* results.append({...}); time.sleep(sleep_sec)
EmitRecord ==
    /\ pc = "emit"
    /\ results' = Append(results, ReportRecord(cur))
    /\ log' = Append(log, Sleep)
    /\ ai' = ai + 1
    /\ cur' = NoCur
    /\ faults' = [faults EXCEPT !.cur = FALSE]
    /\ pc' = "anchor"
    /\ UNCHANGED <<inputs, call, mainLoop, si, seen_urls, outputs, pdf_store>>

\* ------------------------------------------------------------------------
\* main: the summary of a firm
\* ------------------------------------------------------------------------
\* sum(1 for r in firm_rows if r.get("is_pdf"))
RECURSIVE CountPdf(_)
CountPdf(rows) ==
    IF rows = <<>> THEN 0
    ELSE (IF Head(rows).is_pdf THEN 1 ELSE 0) + CountPdf(Tail(rows))

\* dt.replace(tzinfo=timezone.utc) for a naive datetime
EnsureAware(dt) == IF dt.aware THEN dt ELSE [dt EXCEPT !.aware = TRUE, !.off = 0]

\* the loop that fills `dates`: rows without a date, or with one that
\* fromisoformat refuses, are passed over
RECURSIVE CollectDates(_)
CollectDates(rows) ==
    IF rows = <<>> THEN <<>>
    ELSE LET date_str == Head(rows).date_published
             dt       == fromisoformat(ReplaceZ(date_str))
         IN  (IF date_str # <<>> /\ dt.ok THEN <<EnsureAware(dt)>> ELSE <<>>)
                 \o CollectDates(Tail(rows))

\* Mutant: the earliest date is chosen by local time, offsets ignored
RECURSIVE MinDateByLocalTime(_)
MinDateByLocalTime(dates) ==
    IF Len(dates) = 1 THEN Head(dates)
    ELSE LET m == MinDateByLocalTime(Tail(dates))
         IN  IF m.local < Head(dates).local THEN m ELSE Head(dates)

\* min(dates): the first of the earliest instants
RECURSIVE MinDate(_)
MinDate(dates) ==
    IF Len(dates) = 1 THEN Head(dates)
    ELSE LET m == MinDate(Tail(dates))
         IN  IF Instant(m) < Instant(Head(dates)) THEN m ELSE Head(dates)

\* max(dates): the first of the latest instants
RECURSIVE MaxDate(_)
MaxDate(dates) ==
    IF Len(dates) = 1 THEN Head(dates)
    ELSE LET m == MaxDate(Tail(dates))
         IN  IF Instant(m) > Instant(Head(dates)) THEN m ELSE Head(dates)

\* Mutant: the PDFs are not taken off
HtmlReportsCountsAll(total_reports, pdf_reports) == total_reports

\* html_reports = total_reports - pdf_reports
HtmlReports(total_reports, pdf_reports) == total_reports - pdf_reports

firm_summary ==
    LET total_reports == Len(firm_rows)
        pdf_reports   == CountPdf(firm_rows)
        dates         == CollectDates(firm_rows)
    IN  [firm_name            |-> firm_name,
         website              |-> Get(firm, "website", <<>>),
         total_reports        |-> total_reports,
         pdf_reports          |-> pdf_reports,
         html_reports         |-> HtmlReports(total_reports, pdf_reports),
         earliest_report_date |-> IF dates # <<>> THEN isoformat(MinDate(dates)) ELSE <<>>,
         latest_report_date   |-> IF dates # <<>> THEN isoformat(MaxDate(dates)) ELSE <<>>,
         seed_urls_scanned    |-> Len(seed_urls),
         successful_fetches   |-> successful_fetches]

\* Mutant: the summary is appended whether or not there are rows
SummaryAlwaysDue == TRUE

\* `if firm_rows:` whether main appends a summary for the firm whose seeds
\* are done
SummaryDue == firm_rows # <<>>

\* Mutant: the summary is appended, the rows of the firm are not kept
FirmScannedKeepsNoRows ==
    /\ pc = "seed"
    /\ si > Len(seed_urls)
    /\ firm_summaries' = IF SummaryDue THEN Append(firm_summaries, firm_summary)
                         ELSE firm_summaries
    /\ fi' = fi + 1
    /\ pc' = "firm"
    /\ UNCHANGED <<inputs, call, si, firm_rows, successful_fetches, results, seen_urls,
                   ai, cur, outputs, pdf_store, log, faults, all_rows>>

\* the seeds of the firm are exhausted:
\*   if firm_rows: all_rows.extend(firm_rows); ...; firm_summaries.append(firm_summary)
FirmScanned ==
    /\ pc = "seed"
    /\ si > Len(seed_urls)
    /\ all_rows' = IF SummaryDue THEN all_rows \o firm_rows ELSE all_rows
    /\ firm_summaries' = IF SummaryDue THEN Append(firm_summaries, firm_summary)
                         ELSE firm_summaries
    /\ fi' = fi + 1
    /\ pc' = "firm"
    /\ UNCHANGED <<inputs, call, si, firm_rows, successful_fetches, results, seen_urls,
                   ai, cur, outputs, pdf_store, log, faults>>

\* ------------------------------------------------------------------------
\* main: the two CSV files.  A file is the sequence of its lines, each
\* [header, row]: the header line holds the field names, a data line the
\* row it was written from.
\* ------------------------------------------------------------------------
\* open(out_path, "a"); writer.writeheader() if the file did not exist;
\* writer.writerow(...) for every row
\* Mutant: the file is opened with "w": what it held is gone
AppendCsvTruncates(file, fields, rows) ==
    [exists |-> TRUE,
     lines  |-> <<[header |-> TRUE, row |-> fields]>>
                \o [i \in 1..Len(rows) |-> [header |-> FALSE, row |-> rows[i]]]]

\* open(out_path, "a"), the header if the file did not exist, then the rows
AppendCsv(file, fields, rows) ==
    LET write_header == ~file.exists
    IN  [exists |-> TRUE,
         lines  |-> file.lines
                    \o (IF write_header THEN <<[header |-> TRUE, row |-> fields]>>
                        ELSE <<>>)
                    \o [i \in 1..Len(rows) |-> [header |-> FALSE, row |-> rows[i]]]]

save_as_csv(file, rows) == AppendCsv(file, CSV_FIELDS, rows)

save_firms_csv(file, summaries) == AppendCsv(file, FIRMS_CSV_FIELDS, summaries)

\* `if all_rows: save_as_csv(csv_path, all_rows)`
SaveReports ==
    /\ pc = "save_reports"
    /\ reports_csv' = IF all_rows # <<>> THEN save_as_csv(reports_csv, all_rows)
                      ELSE reports_csv
    /\ pc' = "save_firms"
    /\ UNCHANGED <<inputs, call, mainLoop, si, results, seen_urls, ai, cur, firms_csv,
                   pdf_store, log, faults>>

\* `if firm_summaries: save_firms_csv(firms_csv_path, firm_summaries)`, and
\* the run is complete
SaveFirms ==
    /\ pc = "save_firms"
    /\ firms_csv' = IF firm_summaries # <<>>
                    THEN save_firms_csv(firms_csv, firm_summaries)
                    ELSE firms_csv
    /\ pc' = "done"
    /\ UNCHANGED <<inputs, call, mainLoop, si, results, seen_urls, ai, cur, reports_csv,
                   pdf_store, log, faults>>

Next ==
    \/ SkipFirm
    \/ StartFirm
    \/ FirmsDone
    \/ SeedFetchFails
    \/ SeedNot200
    \/ SeedFetched
    \/ NextAnchor
    \/ SeedScanned
    \/ PdfHeadAnswers
    \/ PdfHeadFails
    \/ PdfDirReady
    \/ PdfDirFails
    \/ PdfGetFails
    \/ PdfGetAnswers
    \/ PdfWritten
    \/ PdfWriteFails
    \/ HtmlFetchFails
    \/ HtmlNotUsable
    \/ HtmlFetched
    \/ EmitRecord
    \/ FirmScanned
    \/ SaveReports
    \/ SaveFirms

Spec == Init /\ [][Next]_vars

\* ------------------------------------------------------------------------
\* A run over an output directory an earlier run has written to
\* ------------------------------------------------------------------------
\* What an earlier run of main left in out_dir: the run of ConfigA over WebB
\* without --download-pdfs in which the fetch of the second seed of Acme and
\* the fetch of the seed of G/R failed.
EarlierRows ==
    << [firm |-> AcmeName, seed_url |-> SeedNews,
        found_url |-> normalize_url(SeedNews, AnPdfQuery.href),
        title |-> <<>>, date_published |-> <<>>,
        snippet |-> snippet_around_link(AnPdfQuery),
        is_pdf |-> TRUE, local_path |-> <<>>, http_status |-> 200],
       [firm |-> AcmeName, seed_url |-> SeedNews,
        found_url |-> normalize_url(SeedNews, AnPdfFrag.href),
        title |-> clean_text(AnPdfFrag.text), date_published |-> <<>>,
        snippet |-> snippet_around_link(AnPdfFrag),
        is_pdf |-> FALSE, local_path |-> <<>>, http_status |-> 200] >>

EarlierSummary ==
    [firm_name |-> AcmeName, website |-> <<>>, total_reports |-> Len(EarlierRows),
     pdf_reports |-> CountPdf(EarlierRows),
     html_reports |-> Len(EarlierRows) - CountPdf(EarlierRows),
     earliest_report_date |-> <<>>, latest_report_date |-> <<>>,
     seed_urls_scanned |-> Len(ConfigA[1].seed_urls), successful_fetches |-> 1]

EarlierReports == save_as_csv(NoFile, EarlierRows)
EarlierFirms == save_firms_csv(NoFile, <<EarlierSummary>>)

\* main starts in a fresh output directory or in the one the earlier run left
RerunInit ==
    /\ config \in Configs
    /\ download_pdfs \in BOOLEAN
    /\ web \in Webs
    /\ pc = "firm"
    /\ fi = 1
    /\ si = 1
    /\ firm_rows = <<>>
    /\ successful_fetches = 0
    /\ all_rows = <<>>
    /\ firm_summaries = <<>>
    /\ results = <<>>
    /\ seen_urls = {}
    /\ ai = 1
    /\ cur = NoCur
    /\ \/ reports_csv = NoFile /\ firms_csv = NoFile
       \/ reports_csv = EarlierReports /\ firms_csv = EarlierFirms
    /\ pdf_store = {}
    /\ log = <<>>
    /\ faults = [links |-> 0, cur |-> FALSE]
    /\ call = NoCall

RerunSpec == RerunInit /\ [][Next]_vars

\* ------------------------------------------------------------------------
\* safe_request, attempt by attempt
\* ------------------------------------------------------------------------
\* One call of safe_request(session, url, method) is followed through its
\* loop.  pc is "sr_request" before session.request of the attempt,
\* "sr_except" in the except clause, "sr_returned" after `return resp` and
\* "sr_raised" after `raise`.  The history holds an entry for every attempt
\* and for every time.sleep.

\* b ** n
RECURSIVE Pow(_, _)
Pow(b, n) == IF n = 0 THEN 1 ELSE b * Pow(b, n - 1)

\* Mutant: the delay does not grow with the attempt
BackoffDelayFixed(attempt) == [num |-> 1, den |-> 1]

\* sleep = 1.5 ** attempt, as the fraction 3 ** attempt / 2 ** attempt
BackoffDelay(attempt) == [num |-> Pow(3, attempt), den |-> Pow(2, attempt)]

\* the exceptions of requests.RequestException the network can raise
RequestExceptions == {"ConnectionError", "Timeout"}

\* the status codes a server answers with
StatusCodes == {200, 404, 500}

\* the entries of the history of a call
AttemptAnswered(attempt, status) ==
    [ev |-> "response", attempt |-> attempt, status |-> status, exc |-> "",
     delay |-> [num |-> 0, den |-> 1]]
AttemptRaised(attempt, exc) ==
    [ev |-> "failure", attempt |-> attempt, status |-> NoStatus, exc |-> exc,
     delay |-> [num |-> 0, den |-> 1]]
BackoffSleep(attempt) ==
    [ev |-> "sleep", attempt |-> attempt, status |-> NoStatus, exc |-> "",
     delay |-> BackoffDelay(attempt)]

\* the state main is in while the call is followed
MainIdle ==
    /\ config = ConfigA
    /\ download_pdfs = FALSE
    /\ web = WebA
    /\ fi = 1
    /\ si = 1
    /\ firm_rows = <<>>
    /\ successful_fetches = 0
    /\ all_rows = <<>>
    /\ firm_summaries = <<>>
    /\ results = <<>>
    /\ seen_urls = {}
    /\ ai = 1
    /\ cur = NoCur
    /\ reports_csv = NoFile
    /\ firms_csv = NoFile
    /\ pdf_store = {}
    /\ faults = [links |-> 0, cur |-> FALSE]

\* safe_request is entered: `for attempt in range(RETRY_COUNT + 1)` starts
RetryInit ==
    /\ MainIdle
    /\ \E method \in {"get", "head"} :
       \E url \in Seeds \cup {normalize_url(SeedNews, AnPdfUpper.href)} :
           call = [method |-> method, url |-> url, attempt |-> 0,
                   resp |-> NoStatus, exc |-> ""]
    /\ pc = "sr_request"
    /\ log = <<>>

mainState == <<config, download_pdfs, web, fi, si, firm_rows, successful_fetches,
               all_rows, firm_summaries, results, seen_urls, ai, cur, reports_csv,
               firms_csv, pdf_store, faults>>

\* Mutant: a status of 500 or more is treated like a network exception
SrRespondsRetriesServerErrors ==
    /\ pc = "sr_request"
    /\ call.attempt \in 0..RETRY_COUNT
    /\ \E status \in StatusCodes :
           /\ log' = Append(log, AttemptAnswered(call.attempt, status))
           /\ call' = [call EXCEPT !.resp = IF status >= 500 THEN NoStatus ELSE status]
           /\ pc' = IF status >= 500 THEN "sr_except" ELSE "sr_returned"
    /\ UNCHANGED mainState

\* resp = session.request(...) answered: `return resp`, whatever the status
SrResponds ==
    /\ pc = "sr_request"
    /\ call.attempt \in 0..RETRY_COUNT
    /\ \E status \in StatusCodes :
           /\ log' = Append(log, AttemptAnswered(call.attempt, status))
           /\ call' = [call EXCEPT !.resp = status]
    /\ pc' = "sr_returned"
    /\ UNCHANGED mainState

\* session.request(...) raised a requests.RequestException
SrRaises ==
    /\ pc = "sr_request"
    /\ call.attempt \in 0..RETRY_COUNT
    /\ \E exc \in RequestExceptions :
           /\ log' = Append(log, AttemptRaised(call.attempt, exc))
           /\ call' = [call EXCEPT !.exc = exc]
    /\ pc' = "sr_except"
    /\ UNCHANGED mainState

\* `if attempt >= RETRY_COUNT: raise`
SrReraises ==
    /\ pc = "sr_except"
    /\ call.attempt >= RETRY_COUNT
    /\ pc' = "sr_raised"
    /\ UNCHANGED <<mainState, call, log>>

\* sleep = 1.5 ** attempt; time.sleep(sleep); the loop takes the next attempt
SrBacksOff ==
    /\ pc = "sr_except"
    /\ call.attempt < RETRY_COUNT
    /\ log' = Append(log, BackoffSleep(call.attempt))
    /\ call' = [call EXCEPT !.attempt = call.attempt + 1]
    /\ pc' = "sr_request"
    /\ UNCHANGED mainState

RetryNext ==
    \/ SrResponds
    \/ SrRaises
    \/ SrReraises
    \/ SrBacksOff

RetrySpec == RetryInit /\ [][RetryNext]_vars

\* the call runs on: the interpreter takes the next step of safe_request
FairRetrySpec == RetrySpec /\ WF_vars(RetryNext)

\* ------------------------------------------------------------------------
\* The content extractor over many target pages: a run of one firm with one
\* seed whose page has one HTML link, and nothing fails
\* ------------------------------------------------------------------------
\* how many <meta> and <time> elements a generated target page has at most
MaxTags == 2

\* the elements a generated page is made of; "soon" does not parse
DateTags == {
    MetaTag("property", "article:published_time", <<"D","3","Z">>),
    MetaTag("name", "og:published_time", <<"D","4">>),
    MetaTag("name", "pubdate", <<"D","5","+","4">>),
    MetaTag("name", "publication_date", <<"s","o","o","n">>),
    MetaTag("name", "date", <<"D","6">>),
    TimeTag(<<"D","8">>, <<>>),
    TimeTag(<<>>, <<"D","9","-","2">>) }

\* what the month-name regex finds in the visible text: nothing, a date, or
\* a match that does not parse
TextDates == {<<>>, <<"D","7">>, <<"s","o","o","n">>}

TagLists == UNION {[1..n -> DateTags] : n \in 0..MaxTags}

DatePages ==
    {[title |-> <<"T">>, tags |-> tags, h1 |-> None, textdate |-> textdate,
      p |-> None, links |-> <<>>] : tags \in TagLists, textdate \in TextDates}

ExtractInit ==
    /\ config = <<[name |-> AcmeName, seed_urls |-> <<SeedNews>>]>>
    /\ download_pdfs = FALSE
    /\ \E page \in DatePages :
           web = [s \in Seeds |-> <<[AnBlogKw EXCEPT !.target = page]>>]
    /\ pc = "firm"
    /\ fi = 1
    /\ si = 1
    /\ firm_rows = <<>>
    /\ successful_fetches = 0
    /\ all_rows = <<>>
    /\ firm_summaries = <<>>
    /\ results = <<>>
    /\ seen_urls = {}
    /\ ai = 1
    /\ cur = NoCur
    /\ reports_csv = NoFile
    /\ firms_csv = NoFile
    /\ pdf_store = {}
    /\ log = <<>>
    /\ faults = [links |-> 0, cur |-> FALSE]
    /\ call = NoCall

ExtractNext ==
    \/ StartFirm
    \/ FirmsDone
    \/ SeedFetched
    \/ NextAnchor
    \/ SeedScanned
    \/ HtmlFetched
    \/ EmitRecord
    \/ FirmScanned
    \/ SaveReports
    \/ SaveFirms

ExtractSpec == ExtractInit /\ [][ExtractNext]_vars

\* ========================================================================
\* Properties
\* ========================================================================
\* the lines of a CSV file that are not its header, as rows
DataRows(file) ==
    LET data == SelectSeq(file.lines, LAMBDA l : ~l.header)
    IN  [i \in 1..Len(data) |-> data[i].row]

HasSeeds(f) == Get(config[f], "seed_urls", <<>>) # <<>>
SeedsOf(f) == Get(config[f], "seed_urls", <<>>)
NameOf(f) == config[f].name

\* process_seed is scanning the anchors of a seed it fetched with 200
Scanning == pc \in {"anchor", "pdf_head", "pdf_dir", "pdf_get", "pdf_write",
                    "html_fetch", "emit"}

\* the loop over the firms is over
Finishing == pc \in {"save_reports", "save_firms", "done"}

\* the seed fetches of the run, in the order they were issued
SeedEvents == SelectSeq(log, LAMBDA e : e.kind = "seed")

\* <<firm index, seed URL>> of every configured seed, in configuration order
RECURSIVE ConfiguredSeedsFrom(_)
ConfiguredSeedsFrom(f) ==
    IF f > Len(config) THEN <<>>
    ELSE [k \in 1..Len(SeedsOf(f)) |-> <<f, SeedsOf(f)[k]>>] \o ConfiguredSeedsFrom(f + 1)

\* the places where main and process_seed can stand; an exception that
\* nothing catches would leave them
ControlPoints == {"firm", "seed", "anchor", "pdf_head", "pdf_dir", "pdf_get",
                  "pdf_write", "html_fetch", "emit", "save_reports",
                  "save_firms", "done"}

\* C1: no failure of a link or of a seed aborts the run.  Whatever fails
\* (seed fetches, probes, downloads, target fetches, an exception out of
\* process_seed), the run stays inside main; when the loop over the firms
\* is over, every configured seed has been fetched once, in configuration
\* order; and a complete run has written what it accumulated to both tables.
C1_NoFailureAbortsRun ==
    /\ pc \in ControlPoints
    /\ Finishing =>
           [i \in 1..Len(SeedEvents) |-> <<SeedEvents[i].firm, SeedEvents[i].url>>]
               = ConfiguredSeedsFrom(1)
    /\ pc = "done" =>
           /\ DataRows(reports_csv) = all_rows
           /\ DataRows(firms_csv) = firm_summaries

\* C1 witness: a complete run in which a seed fetch failed, an exception
\* left process_seed, a later seed was still fetched, and rows were written
C1_Witness ==
    /\ pc = "done"
    /\ \E i, j \in 1..Len(log) :
           /\ i < j
           /\ log[i].ev = "exception"
           /\ log[j].kind = "seed"
    /\ \E i, j \in 1..Len(log) :
           /\ i < j
           /\ log[i].ev = "failure" /\ log[i].kind = "seed"
           /\ log[j].kind = "seed" /\ log[j].firm > log[i].firm
    /\ reports_csv.exists
    /\ firms_csv.exists

\* ------------------------------------------------------------------------
\* The anchors of a seed page, as the claims speak of them
\* ------------------------------------------------------------------------
Range(f) == {f[i] : i \in DOMAIN f}

\* normalize_url for every anchor of every page, computed once
NormTable ==
    [w \in Webs |-> [s \in Seeds |->
        [k \in 1..Len(w[s]) |-> normalize_url(s, w[s][k].href)]]]

\* the normalized URL of anchor k of the page seed URL s serves
NormOf(s, k) == NormTable[web][s][k]

\* anchor k is the first anchor of its page with its normalized URL
FirstOccurrence(s, k) ==
    /\ NormOf(s, k) # None
    /\ \A j \in 1..(k - 1) : NormOf(s, j) # NormOf(s, k)

\* the classifier's verdict for every anchor of every page, computed once
PassTable ==
    [w \in Webs |-> [s \in Seeds |->
        [k \in 1..Len(w[s]) |->
            Accepted(NormTable[w][s][k], clean_text(w[s][k].text))]]]

\* the classifier lets the URL of anchor k through, with the text of k
PassesClassifier(s, k) == PassTable[web][s][k]

\* the URLs of the first n anchors of the page that are due a record
DueUrls(s, n) ==
    {NormOf(s, k) : k \in {j \in 1..n : FirstOccurrence(s, j) /\ PassesClassifier(s, j)}}

\* the fetch of seed URL s for firm f answered 200
SeedAnswered200(f, s) ==
    \E e \in Range(log) :
        e.kind = "seed" /\ e.firm = f /\ e.url = s /\ e.ev = "response" /\ e.status = 200

\* the indices of the rows that stem from seed URL s and point to url
RowsFor(rows, s, url) ==
    {i \in DOMAIN rows : rows[i].seed_url = s /\ rows[i].found_url = url}

\* the position in the history of the fetch of the seed being scanned
ScanStart == CHOOSE i \in DOMAIN log :
                 log[i].kind = "seed" /\ \A j \in (i + 1)..Len(log) : log[j].kind # "seed"

\* the requests issued to url since the scan of the current seed began
RequestsInScan(url) ==
    {i \in (ScanStart + 1)..Len(log) : log[i].ev \in {"response", "failure"} /\ log[i].url = url}

\* C2: for a seed page fetched with status 200, process_seed hands main
\* exactly one record for every distinct normalized URL of the page that
\* the classifier accepts, whatever happened while the target was handled.
C2_OneRecordPerAcceptedUrl ==
    pc = "seed" =>
        \A k \in 1..(si - 1) :
            LET s == seed_urls[k]
            IN  SeedAnswered200(fi, s) =>
                    /\ \A u \in DueUrls(s, Len(web[s])) :
                           Cardinality(RowsFor(firm_rows, s, u)) = 1
                    /\ \A i \in DOMAIN firm_rows :
                           firm_rows[i].seed_url = s =>
                               firm_rows[i].found_url \in DueUrls(s, Len(web[s]))

\* C3: within one seed scan no URL gets two records, however many anchors
\* point to it, and the seen set starts empty for every seed: every URL due
\* a record in this scan has exactly one in results, also when the firm
\* already holds a record of the same URL from an earlier seed.
C3_DedupWithinSeedOnly ==
    /\ \A i, j \in DOMAIN results :
           results[i].found_url = results[j].found_url => i = j
    /\ \A i, j \in DOMAIN firm_rows :
           (/\ firm_rows[i].found_url = firm_rows[j].found_url
            /\ firm_rows[i].seed_url = firm_rows[j].seed_url) => i = j
    /\ pc = "anchor" =>
           \A u \in DueUrls(seed, ai - 1) :
               Cardinality(RowsFor(results, seed, u)) = 1

\* C3 witness: the scan has passed two anchors with the same accepted URL,
\* and the firm holds a record of that URL from an earlier seed
C3_Witness ==
    /\ pc = "anchor"
    /\ \E j, k \in 1..(ai - 1) :
           /\ j < k
           /\ NormOf(seed, j) = NormOf(seed, k)
           /\ NormOf(seed, j) \in DueUrls(seed, ai - 1)
           /\ \E r \in Range(firm_rows) :
                  r.found_url = NormOf(seed, j) /\ r.seed_url # seed

\* the words and the path segments the classifier is specified with
ClaimKeywords == {
    <<"r","e","p","o","r","t">>,
    <<"r","e","s","e","a","r","c","h">>,
    <<"w","h","i","t","e","p","a","p","e","r">>,
    <<"p","d","f">>,
    <<"s","h","o","r","t">>,
    <<"a","n","a","l","y","s","i","s">>,
    <<"e","x","p","o","s","e">>,
    <<"r","e","b","u","t","t","a","l">>,
    <<"i","n","v","e","s","t","i","g","a","t","i","o","n">> }

ClaimPathSegments == {
    <<"/","r","e","p","o","r","t","/">>,
    <<"/","r","e","p","o","r","t","s","/">>,
    <<"/","r","e","s","e","a","r","c","h","/">>,
    <<"/","i","n","s","i","g","h","t","s","/">>,
    <<"/","i","n","v","e","s","t","i","g","a","t","i","o","n","/">>,
    <<"/","w","h","i","t","e","p","a","p","e","r","/">>,
    <<"/","p","u","b","l","i","c","a","t","i","o","n","/">> }

\* p occurs in s, ignoring case
Occurs(s, p) ==
    \E i \in 1..(Len(s) - Len(p) + 1) :
        \A j \in 1..Len(p) : LowerChar(s[i + j - 1]) = p[j]


\* the part of url before its first "?" ends in .pdf, ignoring case
EndsInPdfBeforeQuery(url) ==
    LET marks == {j \in 1..Len(url) : url[j] = "?"}
        n     == IF marks = {} THEN Len(url)
                 ELSE (CHOOSE j \in marks : \A k \in marks : j <= k) - 1
    IN  /\ n >= 4
        /\ \A j \in 1..4 : LowerChar(url[n - 4 + j]) = DotPdf[j]

\* the three conditions of the claim
ClaimAccepts(url, text) ==
    \/ EndsInPdfBeforeQuery(url)
    \/ \E kw \in ClaimKeywords : Occurs(url, kw) \/ Occurs(text, kw)
    \/ \E seg \in ClaimPathSegments : Occurs(UrlPath(url), seg)

\* C4: a link is a candidate if and only if its URL ends in .pdf before the
\* query, or URL or anchor text contain a keyword, or the path has one of
\* the publication segments; a rejected link gets no record and no request.
\* (Stated whenever a pass of the loop over the anchors has ended, for all
\* the anchors passed so far.)
C4_CandidateIffClassified ==
    pc = "anchor" =>
        \A k \in 1..(ai - 1) :
            FirstOccurrence(seed, k) =>
                LET u       == NormOf(seed, k)
                    accepts == ClaimAccepts(u, clean_text(web[seed][k].text))
                IN  /\ accepts <=> \E i \in DOMAIN results : results[i].found_url = u
                    /\ ~accepts => RequestsInScan(u) = {}

\* C4 witness: the scan has passed a rejected link and holds the record of
\* a link that only the path pattern accepts
C4_Witness ==
    /\ pc = "anchor"
    /\ \E k \in 1..(ai - 1) :
           /\ FirstOccurrence(seed, k)
           /\ ~ClaimAccepts(NormOf(seed, k), clean_text(web[seed][k].text))
    /\ \E r \in Range(results) :
           /\ ~looks_like_report(r.found_url, <<>>)
           /\ \E seg \in ClaimPathSegments : Occurs(UrlPath(r.found_url), seg)

\* every record the run holds
AllRecords == Range(results) \cup Range(firm_rows) \cup Range(all_rows)

\* a response to a request for url carried the PDF content type
ObservedAsPdf(url) ==
    \E e \in Range(log) :
        e.ev = "response" /\ e.url = url /\ e.ctype = "application/pdf"

\* C5 as stated: is_pdf is true exactly when the path of found_url ends in
\* .pdf or the content type observed for the target is that of a PDF.
C5_IsPdfIffPathOrContentType ==
    \A r \in AllRecords :
        r.is_pdf <=> \/ Occurs(UrlPath(r.found_url), DotPdf)
                        /\ EndsWith(Lower(UrlPath(r.found_url)), DotPdf)
                     \/ ObservedAsPdf(r.found_url)

\* C5 amended: is_pdf is true exactly when found_url, cut at its first "?",
\* ends in .pdf ignoring case; the content type observed plays no part.
C5_IsPdfIffUrlEndsInPdf ==
    /\ \A i \in DOMAIN results :
           results[i].is_pdf <=> EndsInPdfBeforeQuery(results[i].found_url)
    /\ \A i \in DOMAIN firm_rows :
           firm_rows[i].is_pdf <=> EndsInPdfBeforeQuery(firm_rows[i].found_url)
    /\ \A i \in DOMAIN all_rows :
           all_rows[i].is_pdf <=> EndsInPdfBeforeQuery(all_rows[i].found_url)
    /\ pc = "done" =>
           LET written == DataRows(reports_csv)
           IN  \A i \in DOMAIN written :
                   written[i].is_pdf <=> EndsInPdfBeforeQuery(written[i].found_url)

\* C5 witness: a record that is not a PDF although its target answered
\* with the PDF content type
C5_Witness ==
    \E r \in AllRecords : ~r.is_pdf /\ ObservedAsPdf(r.found_url)

\* ------------------------------------------------------------------------
\* The summaries, as the claims speak of them
\* ------------------------------------------------------------------------
\* the summaries accumulated and those written to the summary table
Summaries == Range(firm_summaries) \cup Range(DataRows(firms_csv))

\* the rows accumulated for the firm called name
RowsOfFirm(name) == {i \in DOMAIN all_rows : all_rows[i].firm = name}

\* the configuration entry called name (names are unique in Configs)
FirmIndex(name) == CHOOSE f \in DOMAIN config : NameOf(f) = name

\* the summary rows written for the configuration entry f
WrittenFor(f) ==
    {i \in DOMAIN DataRows(firms_csv) : DataRows(firms_csv)[i].firm_name = NameOf(f)}

\* the instant a date string of a record or of a summary denotes (a naive
\* one is taken as UTC)
InstantOf(date) == LET dt == ParseDateString(date) IN dt.local - dt.off

\* C6: in every summary total_reports is the number of records accumulated
\* for the firm, pdf_reports the number of those with is_pdf, and
\* pdf_reports + html_reports = total_reports.
C6_CountsAddUp ==
    \A S \in Summaries :
        LET R == RowsOfFirm(S.firm_name)
        IN  /\ S.total_reports = Cardinality(R)
            /\ S.pdf_reports = Cardinality({i \in R : all_rows[i].is_pdf})
            /\ S.pdf_reports + S.html_reports = S.total_reports

\* C6 witness: a written summary that counts PDF and HTML reports
C6_Witness ==
    /\ pc = "done"
    /\ \E S \in Range(DataRows(firms_csv)) : S.pdf_reports >= 1 /\ S.html_reports >= 2

\* C7: earliest_report_date and latest_report_date are the minimum and the
\* maximum of the publication timestamps of the firm's dated records, so
\* earliest <= latest; both are empty exactly when no record is dated.
C7_DateRange ==
    \A S \in Summaries :
        LET dated == {i \in RowsOfFirm(S.firm_name) : all_rows[i].date_published # <<>>}
        IN  /\ dated = {} <=> S.earliest_report_date = <<>>
            /\ dated = {} <=> S.latest_report_date = <<>>
            /\ dated # {} =>
                   /\ \A i \in dated :
                          /\ InstantOf(S.earliest_report_date)
                                 <= InstantOf(all_rows[i].date_published)
                          /\ InstantOf(all_rows[i].date_published)
                                 <= InstantOf(S.latest_report_date)
                   /\ \E i \in dated : InstantOf(all_rows[i].date_published)
                                           = InstantOf(S.earliest_report_date)
                   /\ \E i \in dated : InstantOf(all_rows[i].date_published)
                                           = InstantOf(S.latest_report_date)
                   /\ InstantOf(S.earliest_report_date) <= InstantOf(S.latest_report_date)

\* C7 witness: a summary over dated and undated records whose earliest date
\* is strictly before its latest, though its local time reads later
C7_Witness ==
    \E S \in Summaries :
        /\ InstantOf(S.earliest_report_date) < InstantOf(S.latest_report_date)
        /\ ParseDateString(S.earliest_report_date).local
               > ParseDateString(S.latest_report_date).local
        /\ \E i \in RowsOfFirm(S.firm_name) : all_rows[i].date_published = <<>>

\* C8: a firm without seed URLs (no list, or an empty one) gets no record,
\* no summary and no request, and the firms after it are still processed.
C8_FirmWithoutSeedsSkipped ==
    \A f \in DOMAIN config :
        ~HasSeeds(f) =>
            /\ \A i \in DOMAIN results : results[i].firm # NameOf(f)
            /\ \A i \in DOMAIN firm_rows : firm_rows[i].firm # NameOf(f)
            /\ \A i \in DOMAIN all_rows : all_rows[i].firm # NameOf(f)
            /\ pc = "done" =>
                   LET written == DataRows(reports_csv)
                   IN  \A i \in DOMAIN written : written[i].firm # NameOf(f)
            /\ \A S \in Summaries : S.firm_name # NameOf(f)
            /\ \A i \in DOMAIN log : log[i].firm # f
            /\ Finishing =>
                   \A g \in (f + 1)..Len(config) :
                       \A k \in 1..Len(SeedsOf(g)) :
                           \E e \in Range(log) :
                               e.kind = "seed" /\ e.firm = g /\ e.url = SeedsOf(g)[k]

\* C8 witness: a complete run that wrote the summary of a firm configured
\* after a firm without seeds
C8_Witness ==
    /\ pc = "done"
    /\ \E f, g \in DOMAIN config :
           /\ f < g
           /\ ~HasSeeds(f)
           /\ WrittenFor(g) # {}

\* C9 as stated: a complete run has written exactly one summary row for
\* every configured firm that has at least one seed URL.
C9_SummaryForEveryFirmWithSeeds ==
    pc = "done" =>
        \A f \in DOMAIN config : HasSeeds(f) => Cardinality(WrittenFor(f)) = 1

\* C9 amended: a complete run has written exactly one summary row for every
\* configured firm with at least one seed URL and at least one accumulated
\* record, and none for any other firm; a summary is only computed once
\* all the seeds of its firm have been fetched.
C9_SummaryForEveryFirmWithRecords ==
    /\ pc = "done" =>
           \A f \in DOMAIN config :
               Cardinality(WrittenFor(f)) =
                   IF HasSeeds(f) /\ RowsOfFirm(NameOf(f)) # {} THEN 1 ELSE 0
    /\ \A S \in Summaries :
           LET f == FirmIndex(S.firm_name)
           IN  /\ f < fi
               /\ \A k \in 1..Len(SeedsOf(f)) :
                      \E e \in Range(log) :
                          e.kind = "seed" /\ e.firm = f /\ e.url = SeedsOf(f)[k]

\* C9 witness: a complete run that wrote a summary for one firm and none
\* for another firm that has seeds
C9_Witness ==
    /\ pc = "done"
    /\ \E f, g \in DOMAIN config :
           /\ HasSeeds(f) /\ WrittenFor(f) = {}
           /\ HasSeeds(g) /\ WrittenFor(g) # {}

\* C10: successful_fetches is the number of the firm's configured seeds
\* that yielded at least one record, and seed_urls_scanned the number of
\* seed URLs configured for it.
C10_FetchCounts ==
    \A S \in Summaries :
        LET f == FirmIndex(S.firm_name)
        IN  /\ S.seed_urls_scanned = Len(SeedsOf(f))
            /\ S.successful_fetches =
                   Cardinality({k \in 1..Len(SeedsOf(f)) :
                                   \E r \in Range(all_rows) :
                                       r.firm = NameOf(f) /\ r.seed_url = SeedsOf(f)[k]})

\* C10 witness: a summary of a firm one of whose seeds answered 200 and
\* yielded no record, and is not counted
C10_Witness ==
    \E S \in Summaries :
        LET f == FirmIndex(S.firm_name)
        IN  /\ S.successful_fetches < S.seed_urls_scanned
            /\ \E k \in 1..Len(SeedsOf(f)) :
                   /\ SeedAnswered200(f, SeedsOf(f)[k])
                   /\ \A r \in Range(all_rows) :
                          ~(r.firm = NameOf(f) /\ r.seed_url = SeedsOf(f)[k])

\* ------------------------------------------------------------------------
\* The output tables over several runs
\* ------------------------------------------------------------------------
\* the lines of old are the first lines of new
IsPrefix(old, new) ==
    /\ Len(old) <= Len(new)
    /\ \A i \in 1..Len(old) : new[i] = old[i]

\* the file holds one header, as its first line
OneHeaderFirst(file) ==
    file.exists =>
        /\ file.lines # <<>>
        /\ file.lines[1].header
        /\ \A i \in 2..Len(file.lines) : ~file.lines[i].header

\* a step from file old to file new appends rows to it: what was written
\* stays as it was, and a header comes only with the creation of the file
AppendsTo(old, new, rows) ==
    /\ IsPrefix(old.lines, new.lines)
    /\ OneHeaderFirst(new)
    /\ new # old =>
           /\ DataRows(new) = DataRows(old) \o rows
           /\ Len(new.lines) = Len(old.lines) + Len(rows) + (IF old.exists THEN 0 ELSE 1)

\* the file the earlier run left is still there, and more was appended
GrewFrom(earlier, file) ==
    /\ IsPrefix(earlier.lines, file.lines)
    /\ Len(file.lines) > Len(earlier.lines)

\* C11: each output table is append-only across runs.  Every step of a run
\* leaves the lines a table held as a prefix of it, the header is written
\* only when the file is created (first line, once), and the rows a run
\* appends are all the rows it accumulated, also those an earlier run wrote
\* already.
C11_TablesAppendOnly ==
    [][/\ AppendsTo(reports_csv, reports_csv', all_rows)
       /\ AppendsTo(firms_csv, firms_csv', firm_summaries)]_vars

\* C11 witness: a complete run over the tables of the earlier run, which
\* appended to both and wrote a report row the earlier run had written
C11_Witness ==
    /\ pc = "done"
    /\ GrewFrom(EarlierReports, reports_csv)
    /\ GrewFrom(EarlierFirms, firms_csv)
    /\ \E i \in 1..Len(EarlierRows) :
           \E j \in (Len(EarlierRows) + 1)..Len(DataRows(reports_csv)) :
               DataRows(reports_csv)[j] = EarlierRows[i]

\* the reports the summaries of rows[i..] count for the firm called name
RECURSIVE ReportsCounted(_, _, _)
ReportsCounted(rows, name, i) ==
    IF i > Len(rows) THEN 0
    ELSE (IF rows[i].firm_name = name THEN rows[i].total_reports ELSE 0)
             + ReportsCounted(rows, name, i + 1)

\* the number of rows of the reports table that belong to the firm
ReportsWritten(rows, name) == Cardinality({i \in DOMAIN rows : rows[i].firm = name})

\* C12: a summary row is written only after all the records of its firm:
\* at every point of a run the summary table is as the run found it until
\* the reports are saved, and the reports table holds, for every firm,
\* at least as many rows as the summaries in the summary table count
\* (as many, once the run is complete).
C12_SummaryAfterRecords ==
    /\ pc \notin {"save_firms", "done"} =>
           /\ firms_csv \in {NoFile, EarlierFirms}
           /\ reports_csv \in {NoFile, EarlierReports}
    /\ LET summaries == DataRows(firms_csv)
           reports   == DataRows(reports_csv)
       IN  \A i \in DOMAIN summaries :
               LET counted == ReportsCounted(summaries, summaries[i].firm_name, 1)
                   written == ReportsWritten(reports, summaries[i].firm_name)
               IN  /\ counted <= written
                   /\ pc = "done" => counted = written

\* C12 witness: a complete run over the tables of the earlier run that
\* wrote a summary of its own for a firm the earlier run had summarised
C12_Witness ==
    /\ pc = "done"
    /\ firm_summaries # <<>>
    /\ GrewFrom(EarlierFirms, firms_csv)
    /\ \E i \in DOMAIN firm_summaries :
           firm_summaries[i].firm_name = EarlierSummary.firm_name

\* ------------------------------------------------------------------------
\* The capture of PDFs
\* ------------------------------------------------------------------------
\* the positions in the history of the calls of the given kind made for url
\* since the scan of the current seed began
CallsInScan(kind, url) ==
    {i \in (ScanStart + 1)..Len(log) : log[i].kind = kind /\ log[i].url = url}

\* the download of url in this scan failed: the GET raised or answered
\* with a status other than 200
DownloadFailed(url) ==
    \E i \in CallsInScan("download", url) :
        log[i].ev = "failure" \/ log[i].status # 200

\* the last status observed for url in this scan: that of the GET if it
\* answered, else that of the HEAD probe if it answered, else none
LastStatusObserved(url) ==
    LET gets   == {i \in CallsInScan("download", url) : log[i].ev = "response"}
        probes == {i \in CallsInScan("probe", url) : log[i].ev = "response"}
    IN  IF gets # {} THEN log[CHOOSE i \in gets : TRUE].status
        ELSE IF probes # {} THEN log[CHOOSE i \in probes : TRUE].status
        ELSE NoStatus

\* C13: with downloading enabled, a PDF link whose download failed still
\* has its record once the link is handled, with local_path empty and
\* http_status the last status observed (GET, else HEAD probe, else empty).
C13_FailedDownloadStillRecorded ==
    (pc = "anchor" /\ download_pdfs) =>
        \A k \in 1..(ai - 1) :
            LET u == NormOf(seed, k)
            IN  (u # None /\ DownloadFailed(u)) =>
                    /\ \E i \in DOMAIN results : results[i].found_url = u
                    /\ \A i \in DOMAIN results :
                           results[i].found_url = u =>
                               /\ results[i].is_pdf
                               /\ results[i].local_path = <<>>
                               /\ results[i].http_status = LastStatusObserved(u)

\* C13 witness: the record of a PDF whose probe answered 404 and whose GET
\* raised
C13_Witness ==
    /\ pc = "anchor"
    /\ download_pdfs
    /\ \E i \in DOMAIN results :
           LET u == results[i].found_url
           IN  /\ DownloadFailed(u)
               /\ results[i].http_status = 404
               /\ \E j \in CallsInScan("download", u) : log[j].ev = "failure"

\* a step taken while a PDF is persisted leads on to the record of the link
PersistStepKeepsRecords ==
    pc \in {"pdf_dir", "pdf_write"} =>
        /\ pc' \in {"pdf_get", "emit"}
        /\ results' = results
        /\ cur'.local_path # <<>> =>
               StoredFile(cur'.local_path, cur.found, TRUE) \in pdf_store'

\* C14: whatever happens while a PDF is persisted (the directory is made,
\* the file is opened and written), the scan goes on to the record of the
\* link with the records of the earlier links kept, and local_path is set
\* only when the file was written to the end.
C14_PersistFailureKeepsRecords == [][PersistStepKeepsRecords]_vars

\* the records of the firm being processed: those of its earlier seeds and
\* those of the seed being scanned
FirmRecords == firm_rows \o results

\* the file name of a path of the store (what follows the last "/")
FileNameOf(path) == SubSeq(path, LastSlash(path, Len(path)) + 1, Len(path))

\* C15: every captured PDF has a file of its own.  Two records of a firm
\* with different found_url and non-empty local_path have different
\* local_path, the file a record names holds the body of its own URL (no
\* download for another URL has overwritten it), and file names consist of
\* characters of [A-Za-z0-9._-].
C15_OneFilePerCapturedPdf ==
    /\ \A i, j \in DOMAIN FirmRecords :
           (/\ FirmRecords[i].found_url # FirmRecords[j].found_url
            /\ FirmRecords[i].local_path # <<>>
            /\ FirmRecords[j].local_path # <<>>)
               => FirmRecords[i].local_path # FirmRecords[j].local_path
    /\ \A i \in DOMAIN FirmRecords :
           FirmRecords[i].local_path # <<>> =>
               \E f \in pdf_store :
                   f.path = FirmRecords[i].local_path /\ f.url = FirmRecords[i].found_url
    /\ \A f \in pdf_store :
           \A k \in DOMAIN FileNameOf(f.path) : FileNameOf(f.path)[k] \in FilenameChars

\* ------------------------------------------------------------------------
\* Seeds that cannot be fetched
\* ------------------------------------------------------------------------
\* the fetch at position i of the history failed: safe_request raised, or
\* the status is not 200
SeedFetchFailedAt(i) ==
    /\ log[i].kind = "seed"
    /\ log[i].ev = "failure" \/ log[i].status # 200

\* the configured seed after seed URL s of firm f, as <<firm index, URL>>
\* (<<>> after the last one)
SeedAfter(f, s) ==
    LET all == ConfiguredSeedsFrom(1)
        k   == CHOOSE j \in DOMAIN all : all[j] = <<f, s>>
    IN  IF k < Len(all) THEN all[k + 1] ELSE <<>>

\* C16: a seed whose fetch failed or did not answer 200 contributes no
\* record and no request goes to any link of it: what happens next is the
\* fetch of the next configured seed (of the same firm if it has one).
C16_FailedSeedSkipped ==
    \A i \in DOMAIN log :
        SeedFetchFailedAt(i) =>
            /\ \A j \in DOMAIN results :
                   ~(results[j].firm = NameOf(log[i].firm) /\ results[j].seed_url = log[i].url)
            /\ \A j \in DOMAIN firm_rows :
                   ~(firm_rows[j].firm = NameOf(log[i].firm) /\ firm_rows[j].seed_url = log[i].url)
            /\ \A j \in DOMAIN all_rows :
                   ~(all_rows[j].firm = NameOf(log[i].firm) /\ all_rows[j].seed_url = log[i].url)
            /\ i < Len(log) =>
                   /\ log[i + 1].kind = "seed"
                   /\ <<log[i + 1].firm, log[i + 1].url>> = SeedAfter(log[i].firm, log[i].url)
            /\ (i = Len(log) /\ SeedAfter(log[i].firm, log[i].url) # <<>>) =>
                   pc \in {"firm", "seed"}

\* C16 witness: the first seed of a firm failed, the second did not answer
\* 200, and the seed of a later firm was fetched and scanned
C16_Witness ==
    \E i \in DOMAIN log :
        /\ i + 2 <= Len(log)
        /\ log[i].kind = "seed" /\ log[i].ev = "failure"
        /\ log[i + 1].kind = "seed" /\ log[i + 1].ev = "response"
        /\ log[i + 1].status # 200 /\ log[i + 1].firm = log[i].firm
        /\ log[i + 2].kind = "seed" /\ log[i + 2].status = 200
        /\ log[i + 2].firm # log[i].firm
        /\ results # <<>>

\* ------------------------------------------------------------------------
\* The attempts of one call of safe_request
\* ------------------------------------------------------------------------
\* the positions in the history at which an attempt was made
Attempts == {i \in DOMAIN log : log[i].ev \in {"response", "failure"}}

\* the call has ended: a response was returned or an exception raised
CallEnded == pc \in {"sr_returned", "sr_raised"}

\* at most 3 attempts; after failed attempt 0 a sleep of 1 s, after failed
\* attempt 1 a sleep of 1.5 s, each followed by the next attempt; after
\* failed attempt 2 nothing but the raise of its exception
AttemptsBounded ==
    /\ Cardinality(Attempts) <= 3
    /\ \A i \in DOMAIN log :
           log[i].ev = "failure" =>
               /\ log[i].attempt \in {0, 1, 2}
               /\ (log[i].attempt = 0 /\ i < Len(log)) =>
                      /\ log[i + 1].ev = "sleep"
                      /\ log[i + 1].delay.num = log[i + 1].delay.den
               /\ (log[i].attempt = 1 /\ i < Len(log)) =>
                      /\ log[i + 1].ev = "sleep"
                      /\ 2 * log[i + 1].delay.num = 3 * log[i + 1].delay.den
               /\ (log[i].attempt < 2 /\ i + 1 < Len(log)) =>
                      /\ i + 2 \in Attempts
                      /\ log[i + 2].attempt = log[i].attempt + 1
               /\ log[i].attempt = 2 => i = Len(log)
    /\ pc = "sr_raised" =>
           /\ Cardinality(Attempts) = 3
           /\ log[Len(log)].ev = "failure"
           /\ call.exc = log[Len(log)].exc

\* C17: one call of safe_request makes at most 3 attempts; after failed
\* attempt k (k = 0, 1) it sleeps 1.5^k seconds and tries again; a third
\* failure is raised as it is, with no sleep and no fourth attempt; and the
\* call always ends, by a response returned or an exception raised.
C17_AtMostThreeAttempts == []AttemptsBounded /\ <>CallEnded

\* C17 witness: the call raised the exception of its third attempt, a
\* Timeout, after two ConnectionErrors
C17_Witness ==
    /\ pc = "sr_raised"
    /\ Len(log) = 5
    /\ log[1].exc = "ConnectionError"
    /\ log[3].exc = "ConnectionError"
    /\ call.exc = "Timeout"

\* C18: the first response received is returned whatever its status, with
\* no further attempt and no sleep after it; an attempt other than the
\* first is only made after the attempt before it raised and the sleep
\* that follows was taken.
C18_FirstResponseReturned ==
    /\ \A i \in DOMAIN log :
           log[i].ev = "response" =>
               /\ i = Len(log)
               /\ pc = "sr_returned"
               /\ call.resp = log[i].status
    /\ \A i \in Attempts :
           IF log[i].attempt = 0 THEN i = 1
           ELSE /\ i > 2
                /\ log[i - 1].ev = "sleep"
                /\ log[i - 2].ev = "failure"
                /\ log[i - 2].attempt = log[i].attempt - 1
    /\ \A i \in DOMAIN log :
           log[i].ev = "sleep" => (i > 1 /\ log[i - 1].ev = "failure")

\* C18 witness: the first attempt was answered with status 500 and the
\* call returned it at once
C18_Witness ==
    /\ pc = "sr_returned"
    /\ Len(log) = 1
    /\ log[1].status = 500
    /\ call.resp = 500

\* ------------------------------------------------------------------------
\* The politeness sleep
\* ------------------------------------------------------------------------
\* the entry of the history is a request (answered or failed)
IsRequest(e) == e.ev \in {"response", "failure"}

\* the sleeps taken since the scan of the current seed began
SleepsInScan == {i \in (ScanStart + 1)..Len(log) : log[i].ev = "sleep"}

\* C19: the sleep follows the record of every accepted link, before any
\* further request: in a scan there are as many sleeps as records, the
\* sleep is what the history ends with when a record has been appended,
\* requests of two different links never follow each other directly, and a
\* link that is not due a record (discarded, duplicate, rejected) causes
\* no request.
C19_SleepAfterEachRecord ==
    /\ pc = "anchor" =>
           LET due    == DueUrls(seed, ai - 1)
               scan   == (ScanStart + 1)..Len(log)
               reqs   == {i \in scan : IsRequest(log[i])}
               sleeps == {i \in scan : log[i].ev = "sleep"}
           IN  /\ Cardinality(sleeps) = Len(results)
               /\ results # <<>> => log[Len(log)].ev = "sleep"
               /\ {log[i].url : i \in reqs} = due
               /\ \A u \in due : Cardinality({i \in reqs : log[i].url = u}) \in {1, 2}
    /\ \A i \in 2..Len(log) :
           (IsRequest(log[i]) /\ IsRequest(log[i - 1])) =>
               \/ log[i - 1].kind = "seed"
               \/ /\ log[i - 1].kind = "probe"
                  /\ log[i].kind = "download"
                  /\ log[i].url = log[i - 1].url

\* C19 witness: a scan that has appended two records and taken two sleeps,
\* and has passed a duplicate and a rejected link
C19_Witness ==
    /\ pc = "anchor"
    /\ Len(results) >= 2
    /\ Cardinality(SleepsInScan) >= 2
    /\ \E k \in 1..(ai - 1) : NormOf(seed, k) # None /\ ~FirstOccurrence(seed, k)
    /\ \E k \in 1..(ai - 1) : FirstOccurrence(seed, k) /\ ~PassesClassifier(seed, k)

\* C20: between any two consecutive requests of a run the politeness sleep
\* is taken: no two requests follow each other directly.
C20_SleepBetweenAllRequests ==
    \A i \in 2..Len(log) : ~(IsRequest(log[i]) /\ IsRequest(log[i - 1]))

\* ------------------------------------------------------------------------
\* One hop from each seed
\* ------------------------------------------------------------------------
\* the position in the history of the last seed fetch before entry i
SeedFetchBefore(i) ==
    CHOOSE j \in 1..(i - 1) :
        log[j].kind = "seed" /\ \A m \in (j + 1)..(i - 1) : log[m].kind # "seed"

\* every request goes to a configured seed URL of the firm being processed,
\* or to the normalized URL of an anchor of the seed page fetched last,
\* which answered 200
OneHopRequests ==
    \A i \in DOMAIN log :
        IsRequest(log[i]) =>
            IF log[i].kind = "seed"
            THEN \E k \in 1..Len(SeedsOf(log[i].firm)) : SeedsOf(log[i].firm)[k] = log[i].url
            ELSE /\ \E j \in 1..(i - 1) : log[j].kind = "seed"
                 /\ LET e == log[SeedFetchBefore(i)]
                    IN  /\ e.ev = "response"
                        /\ e.status = 200
                        /\ e.firm = log[i].firm
                        /\ \E k \in 1..Len(web[e.url]) : NormOf(e.url, k) = log[i].url

\* where the run stands: the phase of main, the firm, whether its seeds are
\* being processed, the seed, whether its page is being scanned, the
\* anchor, and the stage of the handling of the link
Position ==
    << CASE pc = "save_reports" -> 1 [] pc = "save_firms" -> 2 [] pc = "done" -> 3
            [] OTHER -> 0,
       fi,
       IF pc = "firm" \/ Finishing THEN 0 ELSE 1,
       si,
       IF Scanning THEN 1 ELSE 0,
       ai,
       CASE pc \in {"pdf_head", "html_fetch"} -> 1 [] pc = "pdf_dir" -> 2
            [] pc = "pdf_get" -> 3 [] pc = "pdf_write" -> 4 [] pc = "emit" -> 5
            [] OTHER -> 0 >>

\* the lexicographic order of positions
LexLess(p, q) ==
    \E i \in 1..Len(p) : p[i] < q[i] /\ \A j \in 1..(i - 1) : p[j] = q[j]

\* the loops stay within the configuration and the pages
PositionBounded ==
    /\ fi \in 1..(Len(config) + 1)
    /\ (pc \notin {"firm"} /\ ~Finishing) =>
           /\ fi <= Len(config)
           /\ si \in 1..(Len(seed_urls) + 1)
    /\ Scanning =>
           /\ si <= Len(seed_urls)
           /\ ai \in 1..(Len(web[seed]) + 1)

\* every step of the run moves it forward
Advances == LexLess(Position, Position')

\* C21: the crawl goes one hop from each seed.  Every request targets a
\* configured seed URL or the normalized URL of an anchor of a seed page
\* that answered 200; the links of the target pages are never requested;
\* and the run terminates: its position stays within the finite
\* configuration and pages and every step moves it forward.
C21_OneHopFromEachSeed ==
    /\ [](OneHopRequests /\ PositionBounded)
    /\ [][Advances]_vars

\* C21 witness: a complete run that fetched a target page which has a link
\* of its own
C21_Witness ==
    /\ pc = "done"
    /\ \E i \in DOMAIN log :
           /\ log[i].kind = "target" /\ log[i].ev = "response" /\ log[i].status = 200
           /\ LET s == log[SeedFetchBefore(i)].url
              IN  \E k \in 1..Len(web[s]) :
                      /\ NormOf(s, k) = log[i].url
                      /\ FirstOccurrence(s, k)
                      /\ web[s][k].target.links # <<>>

\* ------------------------------------------------------------------------
\* When the tables are written
\* ------------------------------------------------------------------------
\* C22: the records and the summary of a firm are in the output tables
\* before a seed of a later firm is fetched: once the history holds the
\* seed fetch of a firm, every summary accumulated for an earlier firm is a
\* row of the summary table, and every record accumulated for it is a row
\* of the reports table.
C22_TablesWrittenBeforeNextFirm ==
    \A i \in DOMAIN log :
        log[i].kind = "seed" =>
            /\ \A k \in DOMAIN firm_summaries :
                   FirmIndex(firm_summaries[k].firm_name) < log[i].firm =>
                       \E j \in DOMAIN DataRows(firms_csv) :
                           DataRows(firms_csv)[j] = firm_summaries[k]
            /\ \A k \in DOMAIN all_rows :
                   FirmIndex(all_rows[k].firm) < log[i].firm =>
                       \E j \in DOMAIN DataRows(reports_csv) :
                           DataRows(reports_csv)[j] = all_rows[k]

\* ------------------------------------------------------------------------
\* The capture of a PDF
\* ------------------------------------------------------------------------
\* the records the run holds, in one sequence
EveryRecord == all_rows \o firm_rows \o results

\* a download GET of url answered 200
Downloaded200(url) ==
    \E i \in DOMAIN log :
        /\ log[i].kind = "download" /\ log[i].url = url
        /\ log[i].ev = "response" /\ log[i].status = 200

\* C23: a PDF link is probed with HEAD first; the GET for its body is only
\* issued when downloading is enabled, directly after the probe; a body is
\* only written after a GET that answered 200; and a record has a
\* local_path only if downloading is enabled, the GET answered 200 and the
\* file was written to its end.  With downloading disabled there is no GET
\* to a PDF URL, no file and no local_path.
C23_ProbeThenDownloadOn200 ==
    /\ \A i \in DOMAIN log :
           log[i].kind = "download" =>
               /\ download_pdfs
               /\ i > 1
               /\ log[i - 1].kind = "probe"
               /\ log[i - 1].url = log[i].url
    /\ pc \in {"pdf_dir", "pdf_get", "pdf_write"} =>
           /\ download_pdfs
           /\ log[Len(log)].kind \in {"probe", "download"}
           /\ log[Len(log)].url = cur.found
    /\ pc = "pdf_write" =>
           /\ log[Len(log)].kind = "download"
           /\ log[Len(log)].ev = "response"
           /\ log[Len(log)].status = 200
    /\ \A f \in pdf_store : Downloaded200(f.url)
    /\ cur.local_path # <<>> =>
           /\ pc = "emit"
           /\ StoredFile(cur.local_path, cur.found, TRUE) \in pdf_store
    /\ \A k \in DOMAIN EveryRecord :
           LET r == EveryRecord[k]
           IN  /\ r.is_pdf =>
                   \E i \in DOMAIN log : log[i].kind = "probe" /\ log[i].url = r.found_url
               /\ r.local_path # <<>> =>
                   /\ download_pdfs
                   /\ r.is_pdf
                   /\ r.http_status = 200
                   /\ Downloaded200(r.found_url)
                   /\ r.local_path = LocalFile(r.firm, r.found_url)
    /\ ~download_pdfs =>
           /\ pdf_store = {}
           /\ \A k \in DOMAIN EveryRecord : EveryRecord[k].local_path = <<>>

\* C23 witness: with downloading enabled, one PDF record has its file and
\* another, whose GET did not answer 200, has none
C23_Witness ==
    /\ download_pdfs
    /\ \E j, k \in DOMAIN EveryRecord :
           /\ EveryRecord[j].is_pdf /\ EveryRecord[j].local_path # <<>>
           /\ EveryRecord[k].is_pdf /\ EveryRecord[k].local_path = <<>>
           /\ EveryRecord[k].http_status = 404
           /\ \E i \in DOMAIN log :
                  /\ log[i].kind = "download" /\ log[i].url = EveryRecord[k].found_url
                  /\ log[i].status = 404

\* ------------------------------------------------------------------------
\* The title of an HTML record
\* ------------------------------------------------------------------------
\* the first value of a sequence that is neither None nor empty, <<>>
\* when there is none
RECURSIVE FirstNonEmpty(_)
FirstNonEmpty(vals) ==
    IF vals = <<>> THEN <<>>
    ELSE IF Falsy(Head(vals)) THEN FirstNonEmpty(Tail(vals))
    ELSE Head(vals)

\* the cleaned contents of the <meta> elements of a page whose property or
\* name attribute is key, in document order
MetaContents(page, key) ==
    LET hits == SelectSeq(page.tags, LAMBDA t : t.tag = "meta" /\ t.key = key)
    IN  [i \in 1..Len(hits) |-> clean_text(hits[i].content)]

\* the chain of the claim: the title element, the title meta tags, the
\* first h1, the anchor text, the URL
TitleChain(page, text, url) ==
    << IF page.title = None THEN <<>> ELSE clean_text(page.title) >>
    \o MetaContents(page, "og:title")
    \o MetaContents(page, "twitter:title")
    \o MetaContents(page, "title")
    \o << IF page.h1 = None THEN <<>> ELSE clean_text(page.h1), clean_text(text), url >>

\* the target of url answered 200 with an HTML content type while the page
\* of seed URL s was scanned for firm f
TargetFetchedAsHtml(f, s, url) ==
    \E i \in DOMAIN log :
        /\ log[i].kind = "target" /\ log[i].url = url /\ log[i].firm = f
        /\ log[i].ev = "response" /\ log[i].status = 200 /\ log[i].ctype = "text/html"
        /\ log[SeedFetchBefore(i)].url = s

\* the anchor of the page of s that the record of url was made from
AnchorOf(s, url) == web[s][CHOOSE k \in 1..Len(web[s]) : FirstOccurrence(s, k) /\ NormOf(s, k) = url]

\* C24: the title of the record of an HTML link whose target answered 200
\* with an HTML content type is the first non-empty value of the chain
\* title element, title meta tags, first h1, anchor text, found URL.
C24_TitleIsFirstNonEmptyOfChain ==
    \A k \in DOMAIN EveryRecord :
        LET r == EveryRecord[k]
        IN  (~r.is_pdf /\ TargetFetchedAsHtml(FirmIndex(r.firm), r.seed_url, r.found_url)) =>
                r.title = FirstNonEmpty(TitleChain(AnchorOf(r.seed_url, r.found_url).target,
                                                   AnchorOf(r.seed_url, r.found_url).text,
                                                   r.found_url))

\* ------------------------------------------------------------------------
\* The date of an HTML record
\* ------------------------------------------------------------------------
\* the sources of a date in the order of the claim; "time" stands for the
\* <time> elements, "text" for the date pattern in the visible text
DateSources == <<"article:published_time", "og:published_time", "pubdate",
                 "publication_date", "date", "time", "text">>

\* the values a source offers on a page
SourceValues(page, src) ==
    IF src = "text" THEN {page.textdate}
    ELSE LET of == {i \in DOMAIN page.tags :
                       IF src = "time" THEN page.tags[i].tag = "time"
                       ELSE page.tags[i].tag = "meta" /\ page.tags[i].key = src}
         IN  UNION {{page.tags[i].content, page.tags[i].datetime, page.tags[i].text} :
                    i \in of}

\* the datetimes the values of a source parse to
SourceDates(page, src) ==
    {ParseDateString(v) : v \in {w \in SourceValues(page, src) : ParseDateString(w).ok}}

\* the sources of the page that offer a value that parses, by position
Parsing(page) == {i \in DOMAIN DateSources : SourceDates(page, DateSources[i]) # {}}

\* the page the only link of the seed page leads to
OnlyTarget(s) == web[s][1].target

\* C25: the date of a record is the date of the first source, in the order
\* meta article:published_time, og:published_time, pubdate,
\* publication_date, date, then <time>, then the text pattern, that has a
\* value that parses; it is empty when no source has one.
C25_DateFromFirstParsingSource ==
    \A k \in DOMAIN EveryRecord :
        LET r    == EveryRecord[k]
            page == OnlyTarget(r.seed_url)
            ok   == Parsing(page)
        IN  IF ok = {}
            THEN r.date_published = <<>>
            ELSE LET first == CHOOSE i \in ok : \A j \in ok : i <= j
                 IN  /\ r.date_published # <<>>
                     /\ ParseDateString(r.date_published)
                            \in SourceDates(page, DateSources[first])

\* C25 witness: the record of a page whose article:published_time meta tag
\* stands after a <time> element with another date, and whose visible text
\* has a third date: the record has the date of the meta tag
C25_Witness ==
    /\ pc = "done"
    /\ Len(all_rows) = 1
    /\ LET page == OnlyTarget(all_rows[1].seed_url)
       IN  /\ Len(page.tags) = 2
           /\ page.tags[1].tag = "time" /\ page.tags[1].datetime = <<"D","8">>
           /\ page.tags[2].key = "article:published_time"
           /\ page.textdate = <<"D","7">>
           /\ ParseDateString(all_rows[1].date_published) = ParseDateString(<<"D","3","Z">>)

\* ------------------------------------------------------------------------
\* Discarded schemes
\* ------------------------------------------------------------------------
\* the href uses one of the schemes mailto:, javascript:, tel:
HasDiscardedScheme(href) ==
    \E prefix \in {MailtoPrefix, JavascriptPrefix, TelPrefix} : StartsWith(Strip(href), prefix)

\* the anchors of the page being scanned that the loop has taken up so far
TakenUp == IF pc = "anchor" THEN 1..(ai - 1) ELSE 1..ai

\* C26: while a seed page is scanned, the seen set holds exactly the
\* absolute URLs that the non-empty hrefs without a discarded scheme
\* resolve to against the seed URL; an anchor with a mailto:, javascript:
\* or tel: href leaves no entry in it, no request and no record; and what
\* is classified, requested and recorded is a URL of the seen set.
C26_DiscardedSchemes ==
    Scanning =>
        LET kept == {k \in TakenUp : web[seed][k].href # <<>>
                                     /\ ~HasDiscardedScheme(web[seed][k].href)}
        IN  /\ seen_urls = {urljoin(seed, Strip(web[seed][k].href)) : k \in kept}
            /\ \A u \in seen_urls : StartsWith(u, HttpPrefix)
            /\ \A k \in TakenUp :
                   HasDiscardedScheme(web[seed][k].href) =>
                       /\ \A i \in (ScanStart + 1)..Len(log) :
                              IsRequest(log[i]) =>
                                  /\ log[i].url # Strip(web[seed][k].href)
                                  /\ log[i].url # urljoin(seed, Strip(web[seed][k].href))
                       /\ \A j \in DOMAIN results :
                              /\ results[j].found_url # Strip(web[seed][k].href)
                              /\ results[j].found_url # urljoin(seed, Strip(web[seed][k].href))
            /\ \A i \in (ScanStart + 1)..Len(log) :
                   IsRequest(log[i]) => log[i].url \in seen_urls
            /\ \A j \in DOMAIN results : results[j].found_url \in seen_urls
            /\ pc # "anchor" => cur.found \in seen_urls

\* C26 witness: a scan that has passed a mailto:, a javascript: and a tel:
\* anchor whose texts hold keywords, and has recorded a link with a
\* relative href
C26_Witness ==
    /\ pc = "anchor"
    /\ \A prefix \in {MailtoPrefix, JavascriptPrefix, TelPrefix} :
           \E k \in TakenUp :
               /\ StartsWith(Strip(web[seed][k].href), prefix)
               /\ looks_like_report(web[seed][k].href, clean_text(web[seed][k].text))
    /\ \E k \in TakenUp : \E j \in DOMAIN results :
           /\ ~StartsWith(web[seed][k].href, HttpPrefix)
           /\ results[j].found_url = urljoin(seed, Strip(web[seed][k].href))

\* ------------------------------------------------------------------------
\* Only the first anchor of a URL is classified
\* ------------------------------------------------------------------------
\* anchor j of the page of s points to the URL of an earlier anchor and
\* would be accepted with its own text
LaterAcceptable(s, j) ==
    /\ NormOf(s, j) # None
    /\ ~FirstOccurrence(s, j)
    /\ Accepted(NormOf(s, j), clean_text(web[s][j].text))

\* C27: a URL is in the seen set as soon as its first anchor is taken up,
\* whether or not the classifier accepts it, so only the first anchor of a
\* URL is classified: a URL whose first anchor is rejected gets no record
\* and no request in this scan, whatever the texts of its later anchors.
C27_FirstAnchorDecides ==
    Scanning =>
        \A k \in TakenUp :
            NormOf(seed, k) # None =>
                /\ NormOf(seed, k) \in seen_urls
                /\ (FirstOccurrence(seed, k) /\ ~PassesClassifier(seed, k)) =>
                       /\ \A j \in DOMAIN results : results[j].found_url # NormOf(seed, k)
                       /\ RequestsInScan(NormOf(seed, k)) = {}
                       /\ pc # "anchor" => cur.found # NormOf(seed, k)

\* C27 witness: a scan has passed a rejected first anchor and a later
\* anchor to the same URL whose text holds a keyword, and has recorded
\* another link
C27_Witness ==
    /\ pc = "anchor"
    /\ results # <<>>
    /\ \E k, j \in TakenUp :
           /\ k < j
           /\ FirstOccurrence(seed, k) /\ ~PassesClassifier(seed, k)
           /\ NormOf(seed, j) = NormOf(seed, k)
           /\ LaterAcceptable(seed, j)
           /\ \A i \in DOMAIN results : results[i].found_url # NormOf(seed, k)

\* ------------------------------------------------------------------------
\* The summaries a run writes
\* ------------------------------------------------------------------------
\* the last n rows of a table
LastRows(file, n) ==
    LET rows == DataRows(file)
    IN  SubSeq(rows, Len(rows) - n + 1, Len(rows))

\* the rows the complete run appended to the two tables
RunReports == LastRows(reports_csv, Len(all_rows))
RunSummaries == LastRows(firms_csv, Len(firm_summaries))

\* the seeds of firm f that handed main at least one record
SeedsWithRecords(f) ==
    {k \in 1..Len(SeedsOf(f)) :
        \E i \in DOMAIN all_rows :
            all_rows[i].firm = NameOf(f) /\ all_rows[i].seed_url = SeedsOf(f)[k]}

\* C28: a run writes a summary row for a configuration entry if and only
\* if it accumulated at least one record for it; every summary has
\* total_reports >= 1 and 1 <= successful_fetches <= seed_urls_scanned;
\* and its total_reports is the number of rows the run appends to the
\* reports table for that entry.
C28_SummaryIffRecords ==
    /\ \A k \in DOMAIN firm_summaries :
           LET S == firm_summaries[k]
           IN  /\ S.total_reports >= 1
               /\ S.successful_fetches >= 1
               /\ S.successful_fetches <= S.seed_urls_scanned
               /\ S.total_reports = Cardinality(RowsOfFirm(S.firm_name))
    /\ pc = "done" =>
           /\ Len(DataRows(firms_csv)) >= Len(firm_summaries)
           /\ Len(DataRows(reports_csv)) >= Len(all_rows)
           /\ RunSummaries = firm_summaries
           /\ \A f \in DOMAIN config :
                  LET written == {k \in DOMAIN RunSummaries :
                                     RunSummaries[k].firm_name = NameOf(f)}
                  IN  /\ Cardinality(written) = IF SeedsWithRecords(f) # {} THEN 1 ELSE 0
                      /\ \A k \in written :
                             RunSummaries[k].total_reports =
                                 Cardinality({i \in DOMAIN RunReports :
                                                 RunReports[i].firm = NameOf(f)})

\* C28 witness: a complete run over the tables of the earlier run that
\* wrote a summary with fewer successful fetches than seeds, and none for
\* another entry with seeds
C28_Witness ==
    /\ pc = "done"
    /\ GrewFrom(EarlierFirms, firms_csv)
    /\ Len(DataRows(firms_csv)) > Len(firm_summaries)
    /\ \E k \in DOMAIN RunSummaries :
           /\ RunSummaries[k].successful_fetches < RunSummaries[k].seed_urls_scanned
           /\ RunSummaries[k].total_reports >= 2
    /\ \E f \in DOMAIN config :
           /\ HasSeeds(f)
           /\ \A k \in DOMAIN RunSummaries : RunSummaries[k].firm_name # NameOf(f)

\* ------------------------------------------------------------------------
\* Keywords in the host
\* ------------------------------------------------------------------------
\* the host of an absolute http URL, in lower case
HostOf(url) == Lower(SubSeq(url, Len(HttpPrefix) + 1, PathStart(url) - 1))

\* the host of the URL contains one of the keywords
HostHasKeyword(url) ==
    \E i \in DOMAIN REPORT_KEYWORDS : Occurs(HostOf(url), REPORT_KEYWORDS[i])

\* the href, the path and the text of anchor k alone would not let it
\* through: no keyword in href or text, no PDF, no path pattern
OnlyTheHostCounts(s, k) ==
    /\ ~looks_like_report(Strip(web[s][k].href), clean_text(web[s][k].text))
    /\ ~PathLooksLikeReports(NormOf(s, k))

\* C29: the keywords are looked for in the resolved absolute URL, host
\* included: the first anchor of every URL whose host contains a keyword
\* is accepted and handled as a candidate, whatever its path and text, and
\* gets its record.
C29_HostKeywordAccepts ==
    Scanning =>
        \A k \in TakenUp :
            (FirstOccurrence(seed, k) /\ HostHasKeyword(NormOf(seed, k))) =>
                IF pc = "anchor" \/ k < ai
                THEN \E j \in DOMAIN results : results[j].found_url = NormOf(seed, k)
                ELSE cur.found = NormOf(seed, k)

\* C29 witness: a record for an anchor that only the host lets through
C29_Witness ==
    /\ pc = "anchor"
    /\ \E k \in TakenUp :
           /\ FirstOccurrence(seed, k)
           /\ HostHasKeyword(NormOf(seed, k))
           /\ OnlyTheHostCounts(seed, k)
           /\ \E j \in DOMAIN results : results[j].found_url = NormOf(seed, k)
====
